---- MODULE Spec2Model ----
(***************************************************************************)
(* simple-notary: the post-notarization signing exchange.                  *)
(*                                                                         *)
(*   - JSON values, their serialization and parsing (serde_json)           *)
(*   - the redaction predicate is_json_subset (signing/subset.rs)          *)
(*   - the framing codec write_message / read_message (signing/protocol.rs)*)
(*   - the exchange driver run_signing_exchange (signing/exchange.rs)      *)
(*   - the session glue handle_notarize (server.rs)                        *)
(*                                                                         *)
(* A byte stream is a sequence of units.  The four bytes of a length       *)
(* prefix are modelled exactly (big-endian, base 256); a payload unit is   *)
(* one lexical token of the JSON text, so a payload's length is its number *)
(* of tokens.                                                              *)
(***************************************************************************)
EXTENDS Integers, Sequences, FiniteSets, TLC

VARIABLES
    \* ---- the session task: main, handle_notarize, run_signing_exchange ----
    pc,              \* position of the session task
    cfg,             \* the configuration chosen at startup, and the request's
                     \* context_format once handle_notarize has matched on it
    context,         \* the HttpContext built from the verified transcript
    canonical_json,  \* exchange.rs: canonical_json
    wr,              \* the write_message call in progress: [kind, payload]
    rd_len,          \* read_message: len, once the prefix has been read
    prover_msg,      \* exchange.rs: prover_msg
    value_to_encode, \* exchange.rs: value_to_encode
    encoded,         \* exchange.rs: encoded
    signature_bytes, \* exchange.rs: signature_bytes
    err,             \* the error the exchange returned ("" if none)
    \* ---- the duplex stream and the prover at its other end ----
    out,             \* units the notary has written to the stream
    inp,             \* units the prover has delivered, not yet read
    in_eof,          \* the prover's side of the stream is closed
    prover_state,    \* "idle" | "partial" | "sent" | "closed"
    script,          \* units of the prover's frame not yet delivered
    \* ---- history ----
    events,          \* the I/O steps of the session, in order
    consumed,        \* the number of units each read_message step consumed
    encode_args,     \* the values passed to encoder.encode
    sign_args,       \* the digests passed to signer.sign_digest
    \* ---- pure-function harness for is_json_subset ----
    sub_pc,         \* "input" | "done"
    sub_filtered,   \* first argument of is_json_subset
    sub_original,   \* second argument of is_json_subset
    sub_result,     \* "none" | "true" | "false"
    \* ---- framing harness: a writer and a reader on one stream ----
    fr_T,           \* the message enum read_message deserializes into
    fr_queue,       \* the messages the writer writes, in order
    fr_written,     \* how many of them write_message has completed
    fr_wpc,         \* writer: "w_len" | "w_payload" | "w_flush"
    fr_wire,        \* units written and not yet read
    fr_rpc,         \* reader: "r_len" | "r_payload" | "failed"
    fr_rlen,        \* reader: the decoded length prefix
    fr_rcvd,        \* the messages read_message has returned, in order
    fr_used,        \* the units each read_message call consumed
    \* ---- notarize: the verifier's handle and its driver task ----
    nz_pc,          \* position of the task that called notarize
    nz_drv,         \* the spawned driver task: "none" | "running" | "closing" | "done" | "failed"
    nz_io,          \* who holds the stream: "caller" | "driver" | "dropped"
    nz_log,         \* who performed each I/O operation on the stream, in order
    \* ---- EmbeddingEncoder shared by concurrent sessions ----
    emb_allowed,    \* EmbeddingEncoder.allowed_models
    emb_models,     \* EmbeddingEncoder.models: the set of [name, instance] entries
    emb_lock,       \* the session holding the models mutex, 0 if none
    emb_pc,         \* per session: position inside encode / embed
    emb_call,       \* per session: the arguments of its encode call
    emb_local,      \* per session: model_name, json_text, the instance in use,
                    \* whether it was found in the cache, raw_embedding, the error returned
    emb_done,       \* the encode calls that returned Ok: arguments and result
    emb_loads,      \* the cache entries inserted, in order
    emb_started,    \* encode calls started, over all sessions
    \* ---- the HTTP front end: router, extractors, error responses ----
    http_pc,        \* "idle" | "extract_upgrade" | "extract_query" | "handler" | "reject"
    http_req,       \* the request being served
    http_rejection, \* the NotaryServerError an extractor returned
    http_resp,      \* the response to the request last answered
    http_sessions,  \* how many times on_upgrade scheduled handle_notarize
    http_served,    \* requests received so far
    \* ---- encoders applied to a view of a context ----
    en_pc,          \* "subset" | "parse" | "abi" | "eip712" | "done"
    en_original,    \* the authenticated context
    en_view,        \* the value handed to the encoders
    en_domain,      \* the Eip712Encoder's domain
    en_accepted,    \* is_json_subset(en_view, en_original)
    en_att,         \* parse_attestation(en_view)
    en_abi,         \* AbiEncoder.encode(en_view)
    en_eip712,      \* Eip712Encoder.encode(en_view)
    \* ---- is_json_subset along a chain of three values ----
    tr_pc,          \* "lower" | "upper" | "outer" | "done"
    tr_a,           \* a view of tr_b
    tr_b,           \* a view of tr_c
    tr_c,           \* the authenticated context
    tr_ab,          \* is_json_subset(tr_a, tr_b)
    tr_bc,          \* is_json_subset(tr_b, tr_c)
    tr_ac           \* is_json_subset(tr_a, tr_c)

exVars == <<pc, cfg, context, canonical_json, wr, rd_len, prover_msg,
            value_to_encode, encoded, signature_bytes, err, out, inp, in_eof,
            prover_state, script, events, consumed, encode_args, sign_args>>

subVars == <<sub_pc, sub_filtered, sub_original, sub_result>>

frVars == <<fr_T, fr_queue, fr_written, fr_wpc, fr_wire, fr_rpc, fr_rlen,
            fr_rcvd, fr_used>>

nzVars == <<nz_pc, nz_drv, nz_io, nz_log>>

embVars == <<emb_allowed, emb_models, emb_lock, emb_pc, emb_call, emb_local,
             emb_done, emb_loads, emb_started>>

httpVars == <<http_pc, http_req, http_rejection, http_resp, http_sessions,
              http_served>>

encVars == <<en_pc, en_original, en_view, en_domain, en_accepted, en_att,
             en_abi, en_eip712>>

trVars == <<tr_pc, tr_a, tr_b, tr_c, tr_ab, tr_bc, tr_ac>>

\* the variables of the harnesses, which a session leaves alone
harnessVars == <<subVars, frVars, nzVars, embVars, httpVars, encVars, trVars>>

vars == <<exVars, harnessVars>>

(***************************************************************************)
(* Bounds of the explored universe of JSON values.                         *)
(***************************************************************************)
MaxNum == 1         \* numbers 1..MaxNum
MaxArrLen == 2      \* arrays of scalars up to this length

(***************************************************************************)
(* serde_json::Value                                                       *)
(***************************************************************************)
JNull == [t |-> "null"]
JBool(b) == [t |-> "bool", v |-> b]
JNum(n) == [t |-> "num", v |-> n]
JStr(s) == [t |-> "str", v |-> s]
JArr(s) == [t |-> "arr", v |-> s]
JObj(f) == [t |-> "obj", v |-> f]

IsScalar(x) == x.t \in {"bool", "num", "str"}

Min(a, b) == IF a < b THEN a ELSE b

(***************************************************************************)
(* signing/subset.rs: is_json_subset                                       *)
(***************************************************************************)
RECURSIVE is_json_subset_no_len(_, _)
is_json_subset_no_len(subset, superset) ==
    CASE subset.t = "null" -> TRUE
      [] subset.t = "bool" /\ superset.t = "bool" -> subset.v = superset.v
      [] subset.t = "num" /\ superset.t = "num" -> subset.v = superset.v
      [] subset.t = "str" /\ superset.t = "str" -> subset.v = superset.v
      [] subset.t = "arr" /\ superset.t = "arr" ->
            \A i \in 1..Min(Len(subset.v), Len(superset.v)) :
                is_json_subset_no_len(subset.v[i], superset.v[i])
      [] subset.t = "obj" /\ superset.t = "obj" ->
            \A key \in DOMAIN subset.v :
                /\ key \in DOMAIN superset.v
                /\ is_json_subset_no_len(subset.v[key], superset.v[key])
      [] OTHER -> FALSE

RECURSIVE is_json_subset_no_number_arm(_, _)
is_json_subset_no_number_arm(subset, superset) ==
    CASE subset.t = "null" -> TRUE
      [] subset.t = "bool" /\ superset.t = "bool" -> subset.v = superset.v
      [] subset.t = "str" /\ superset.t = "str" -> subset.v = superset.v
      [] subset.t = "arr" /\ superset.t = "arr" ->
            /\ Len(subset.v) = Len(superset.v)
            /\ \A i \in 1..Len(subset.v) :
                is_json_subset_no_number_arm(subset.v[i], superset.v[i])
      [] subset.t = "obj" /\ superset.t = "obj" ->
            \A key \in DOMAIN subset.v :
                /\ key \in DOMAIN superset.v
                /\ is_json_subset_no_number_arm(subset.v[key], superset.v[key])
      [] OTHER -> FALSE

RECURSIVE is_json_subset_null_superset(_, _)
is_json_subset_null_superset(subset, superset) ==
    CASE subset.t = "null" \/ superset.t = "null" -> TRUE
      [] subset.t = "bool" /\ superset.t = "bool" -> subset.v = superset.v
      [] subset.t = "num" /\ superset.t = "num" -> subset.v = superset.v
      [] subset.t = "str" /\ superset.t = "str" -> subset.v = superset.v
      [] subset.t = "arr" /\ superset.t = "arr" ->
            /\ Len(subset.v) = Len(superset.v)
            /\ \A i \in 1..Len(subset.v) :
                is_json_subset_null_superset(subset.v[i], superset.v[i])
      [] subset.t = "obj" /\ superset.t = "obj" ->
            \A key \in DOMAIN subset.v :
                /\ key \in DOMAIN superset.v
                /\ is_json_subset_null_superset(subset.v[key], superset.v[key])
      [] OTHER -> FALSE

RECURSIVE is_json_subset(_, _)
is_json_subset(subset, superset) ==
    CASE subset.t = "null" -> TRUE
      [] subset.t = "bool" /\ superset.t = "bool" -> subset.v = superset.v
      [] subset.t = "num" /\ superset.t = "num" -> subset.v = superset.v
      [] subset.t = "str" /\ superset.t = "str" -> subset.v = superset.v
      [] subset.t = "arr" /\ superset.t = "arr" ->
            /\ Len(subset.v) = Len(superset.v)
            /\ \A i \in 1..Len(subset.v) :
                is_json_subset(subset.v[i], superset.v[i])
      [] subset.t = "obj" /\ superset.t = "obj" ->
            \A key \in DOMAIN subset.v :
                /\ key \in DOMAIN superset.v
                /\ is_json_subset(subset.v[key], superset.v[key])
      [] OTHER -> FALSE

(***************************************************************************)
(* Paths into a value: sequences of array indices and object keys.         *)
(***************************************************************************)
IxStep(i) == [ix |-> i]
KeyStep(k) == [key |-> k]

RECURSIVE Paths(_)
Paths(x) ==
    {<<>>} \cup
    (IF x.t = "arr"
       THEN UNION {{<<IxStep(i)>> \o p : p \in Paths(x.v[i])} : i \in 1..Len(x.v)}
       ELSE IF x.t = "obj"
         THEN UNION {{<<KeyStep(k)>> \o p : p \in Paths(x.v[k])} : k \in DOMAIN x.v}
         ELSE {})

StepDefined(x, s) ==
    IF "ix" \in DOMAIN s
      THEN x.t = "arr" /\ s.ix \in 1..Len(x.v)
      ELSE x.t = "obj" /\ s.key \in DOMAIN x.v

Child(x, s) == IF "ix" \in DOMAIN s THEN x.v[s.ix] ELSE x.v[s.key]

RECURSIVE HasPath(_, _)
HasPath(x, p) ==
    \/ Len(p) = 0
    \/ /\ Len(p) > 0
       /\ StepDefined(x, Head(p))
       /\ HasPath(Child(x, Head(p)), Tail(p))

RECURSIVE At(_, _)
At(x, p) == IF Len(p) = 0 THEN x ELSE At(Child(x, Head(p)), Tail(p))

(***************************************************************************)
(* JSON text.  A text is a sequence of lexical tokens.                     *)
(***************************************************************************)
LBrace == [k |-> "{"]
RBrace == [k |-> "}"]
LBrack == [k |-> "["]
RBrack == [k |-> "]"]
Comma == [k |-> ","]
Colon == [k |-> ":"]
TNull == [k |-> "null"]
TBool(b) == [k |-> "bool", v |-> b]
TNum(n) == [k |-> "num", v |-> n]
TStr(s) == [k |-> "str", v |-> s]      \* a string literal
TText(cs) == [k |-> "text", v |-> cs]  \* a string literal holding escaped text

\* Key order of serde_json's Map (a BTreeMap: byte-wise sorted keys).
BTreeOrder ==
    <<"Json", "Other", "Unknown", "a", "age", "b", "body", "extra", "headers",
      "method", "name", "requests", "responses", "status", "target">>

\* Field order of the HttpContext structs (declaration order).
StructOrder ==
    <<"requests", "responses", "method", "target", "status", "headers",
      "body", "Json", "Unknown", "a", "b", "extra", "name", "age", "Other">>

KeysIn(order, D) == SelectSeq(order, LAMBDA key : key \in D)

\* serde_json::to_string; `order` is the order in which the members of an
\* object are written
RECURSIVE to_string(_, _), JoinElems(_, _, _), JoinMembers(_, _, _, _)
to_string(order, x) ==
    CASE x.t = "null" -> <<TNull>>
      [] x.t = "bool" -> <<TBool(x.v)>>
      [] x.t = "num" -> <<TNum(x.v)>>
      [] x.t = "str" -> <<TStr(x.v)>>
      [] x.t = "arr" -> <<LBrack>> \o JoinElems(order, x.v, 1) \o <<RBrack>>
      [] x.t = "obj" ->
            <<LBrace>> \o JoinMembers(order, x.v, KeysIn(order, DOMAIN x.v), 1)
                \o <<RBrace>>

JoinElems(order, s, i) ==
    IF i > Len(s) THEN <<>>
    ELSE (IF i > 1 THEN <<Comma>> ELSE <<>>)
            \o to_string(order, s[i]) \o JoinElems(order, s, i + 1)

JoinMembers(order, f, keys, i) ==
    IF i > Len(keys) THEN <<>>
    ELSE (IF i > 1 THEN <<Comma>> ELSE <<>>)
            \o <<TStr(keys[i]), Colon>> \o to_string(order, f[keys[i]])
            \o JoinMembers(order, f, keys, i + 1)

\* serde_json::from_str into a Value: recursive descent; the whole text must
\* be consumed
ParseFail == [ok |-> FALSE, val |-> JNull, next |-> 0]
ParseOk(x, n) == [ok |-> TRUE, val |-> x, next |-> n]

MapInsert(f, key, x) ==
    [kk \in DOMAIN f \cup {key} |-> IF kk = key THEN x ELSE f[kk]]

RECURSIVE ParseValue(_, _), ParseElems(_, _, _), ParseMembers(_, _, _)
ParseValue(ts, i) ==
    IF i > Len(ts) THEN ParseFail
    ELSE CASE ts[i].k = "null" -> ParseOk(JNull, i + 1)
           [] ts[i].k = "bool" -> ParseOk(JBool(ts[i].v), i + 1)
           [] ts[i].k = "num" -> ParseOk(JNum(ts[i].v), i + 1)
           [] ts[i].k = "str" -> ParseOk(JStr(ts[i].v), i + 1)
           [] ts[i].k = "[" ->
                IF i + 1 <= Len(ts) /\ ts[i + 1].k = "]"
                  THEN ParseOk(JArr(<<>>), i + 2)
                  ELSE ParseElems(ts, i + 1, <<>>)
           [] ts[i].k = "{" ->
                IF i + 1 <= Len(ts) /\ ts[i + 1].k = "}"
                  THEN ParseOk(JObj(<<>>), i + 2)
                  ELSE ParseMembers(ts, i + 1, <<>>)
           [] OTHER -> ParseFail

ParseElems(ts, i, acc) ==
    LET r == ParseValue(ts, i) IN
    IF ~r.ok \/ r.next > Len(ts) THEN ParseFail
    ELSE CASE ts[r.next].k = "," -> ParseElems(ts, r.next + 1, Append(acc, r.val))
           [] ts[r.next].k = "]" -> ParseOk(JArr(Append(acc, r.val)), r.next + 1)
           [] OTHER -> ParseFail

ParseMembers(ts, i, acc) ==
    IF i + 1 > Len(ts) \/ ts[i].k # "str" \/ ts[i + 1].k # ":" THEN ParseFail
    ELSE LET r == ParseValue(ts, i + 2) IN
         IF ~r.ok \/ r.next > Len(ts) THEN ParseFail
         ELSE CASE ts[r.next].k = "," ->
                     ParseMembers(ts, r.next + 1, MapInsert(acc, ts[i].v, r.val))
                [] ts[r.next].k = "}" ->
                     ParseOk(JObj(MapInsert(acc, ts[i].v, r.val)), r.next + 1)
                [] OTHER -> ParseFail

from_str(text) ==
    LET r == ParseValue(text, 1) IN
    IF r.ok /\ r.next = Len(text) + 1
      THEN [ok |-> TRUE, val |-> r.val]
      ELSE [ok |-> FALSE, val |-> JNull]

(***************************************************************************)
(* signing/protocol.rs: the framing codec                                  *)
(***************************************************************************)
\* 10 * 1024 * 1024
MAX_MESSAGE_SIZE == 10485760

Byte(n) == [k |-> "byte", v |-> n]

\* `payload.len() as u32` (computed without forming 2^32)
as_u32(n) == (n % 65536) + 65536 * ((n \div 65536) % 65536)

to_le_bytes(n) ==
    <<Byte(n % 256), Byte((n \div 256) % 256), Byte((n \div 65536) % 256),
      Byte((n \div 16777216) % 256)>>

\* u32::to_be_bytes
to_be_bytes(n) ==
    <<Byte((n \div 16777216) % 256), Byte((n \div 65536) % 256),
      Byte((n \div 256) % 256), Byte(n % 256)>>

\* u32::from_be_bytes
from_be_bytes(b) == ((b[1].v * 256 + b[2].v) * 256 + b[3].v) * 256 + b[4].v

too_large_ge(len) == len >= MAX_MESSAGE_SIZE

\* the size check of read_message
too_large(len) == len > MAX_MESSAGE_SIZE

\* serde_json::to_vec of a tagged message (#[serde(tag = "type")])
Field(name, tok) == <<Comma, TStr(name), Colon, tok>>

serialize_message(msg) ==
    <<LBrace, TStr("type"), Colon, TStr(msg.type)>>
    \o (CASE msg.type = "Context" -> Field("data", TText(msg.data))
          [] msg.type = "Signed" ->
                Field("data", TText(msg.data))
                \o Field("format", TStr(msg.format))
                \o Field("signature", TText(msg.signature))
                \o Field("public_key", TText(msg.public_key))
                \o Field("algorithm", TStr(msg.algorithm))
          [] msg.type = "SignFiltered" -> Field("data", TText(msg.data))
          [] OTHER -> <<>>)
    \o <<RBrace>>

\* the members of a flat JSON object whose values are string literals
RECURSIVE ParseFields(_, _, _)
ParseFields(ts, i, acc) ==
    IF i + 3 > Len(ts) \/ ts[i].k # "str" \/ ts[i + 1].k # ":"
        \/ ts[i + 2].k \notin {"str", "text"}
      THEN [ok |-> FALSE, f |-> <<>>]
      ELSE CASE ts[i + 3].k = "," ->
                    ParseFields(ts, i + 4, MapInsert(acc, ts[i].v, ts[i + 2]))
             [] ts[i + 3].k = "}" /\ i + 3 = Len(ts) ->
                    [ok |-> TRUE, f |-> MapInsert(acc, ts[i].v, ts[i + 2])]
             [] OTHER -> [ok |-> FALSE, f |-> <<>>]

NoMessage == [type |-> "none"]
DeFail == [ok |-> FALSE, msg |-> NoMessage]
DeOk(m) == [ok |-> TRUE, msg |-> m]

HasKind(f, name, kind) == name \in DOMAIN f /\ f[name].k = kind

\* serde_json::from_slice into the message enum T
deserialize_message(T, payload) ==
    IF Len(payload) < 1 \/ payload[1].k # "{" THEN DeFail
    ELSE LET r == ParseFields(payload, 2, <<>>) IN
         IF ~r.ok \/ ~HasKind(r.f, "type", "str") THEN DeFail
         ELSE LET ty == r.f["type"].v IN
              CASE T = "ProverMessage" /\ ty = "SignRequest" ->
                        DeOk([type |-> "SignRequest"])
                [] T = "ProverMessage" /\ ty = "SignFiltered"
                        /\ HasKind(r.f, "data", "text") ->
                        DeOk([type |-> "SignFiltered", data |-> r.f["data"].v])
                [] T = "NotaryMessage" /\ ty = "Context"
                        /\ HasKind(r.f, "data", "text") ->
                        DeOk([type |-> "Context", data |-> r.f["data"].v])
                [] T = "NotaryMessage" /\ ty = "Signed"
                        /\ HasKind(r.f, "data", "text")
                        /\ HasKind(r.f, "format", "str")
                        /\ HasKind(r.f, "signature", "text")
                        /\ HasKind(r.f, "public_key", "text")
                        /\ HasKind(r.f, "algorithm", "str") ->
                        DeOk([type |-> "Signed", data |-> r.f["data"].v,
                              format |-> r.f["format"].v,
                              signature |-> r.f["signature"].v,
                              public_key |-> r.f["public_key"].v,
                              algorithm |-> r.f["algorithm"].v])
                [] OTHER -> DeFail

Take(s, n) == SubSeq(s, 1, n)
Drop(s, n) == SubSeq(s, n + 1, Len(s))

\* how many units a failing write_all may have written before the error
FailCuts(n) == {c \in {0, 1, n - 1} : c >= 0 /\ c < n}

write_all_short(buf) ==
    {[ok |-> TRUE, written |-> Take(buf, Len(buf) - 1)]}
    \cup {[ok |-> FALSE, written |-> Take(buf, c)] : c \in FailCuts(Len(buf))}

\* AsyncWriteExt::write_all: everything is written, or the transport fails
\* after some of it
write_all(buf) ==
    {[ok |-> TRUE, written |-> buf]}
    \cup {[ok |-> FALSE, written |-> Take(buf, c)] : c \in FailCuts(Len(buf))}

\* n bytes of string content, kept as one unit of a string literal
Bulk(n) == [k |-> "bulk", n |-> n]

RECURSIVE bulk_len(_)
bulk_len(cs) ==
    IF Len(cs) = 0 THEN 0
    ELSE (IF Head(cs).k = "bulk" THEN Head(cs).n ELSE 0) + bulk_len(Tail(cs))

\* the bytes one unit of a payload stands for: one, and for a string literal
\* the bulk content it holds on top
unit_len(u) == IF u.k = "text" THEN 1 + bulk_len(u.v) ELSE 1

\* payload.len()
RECURSIVE payload_len(_)
payload_len(payload) ==
    IF Len(payload) = 0 THEN 0
    ELSE unit_len(Head(payload)) + payload_len(Tail(payload))

\* how many units at the head of a stream make up its first n bytes
RECURSIVE UnitsWithin(_, _)
UnitsWithin(st, n) ==
    IF Len(st) = 0 \/ unit_len(Head(st)) > n THEN 0
    ELSE 1 + UnitsWithin(Tail(st), n - unit_len(Head(st)))

\* the bytes write_message puts on the stream
Frame(payload) == to_be_bytes(as_u32(payload_len(payload))) \o payload

(***************************************************************************)
(* encoding/: the encoders                                                 *)
(***************************************************************************)
Missing == [t |-> "missing"]    \* Option::None of Value::get

\* Value::get(key)
Get(x, key) == IF x.t = "obj" /\ key \in DOMAIN x.v THEN x.v[key] ELSE Missing

\* v.as_str().unwrap_or("")
StrOrEmpty(x) == IF x.t = "str" THEN x.v ELSE ""

\* v.as_u64().unwrap_or(0)
U64OrZero(x) == IF x.t = "num" /\ x.v >= 0 THEN x.v ELSE 0

\* v.as_array().unwrap_or(empty)
ArrayOrEmpty(x) == IF x.t = "arr" THEN x.v ELSE <<>>

RECURSIVE ConcatAll(_)
ConcatAll(ss) == IF Len(ss) = 0 THEN <<>> ELSE Head(ss) \o ConcatAll(Tail(ss))

BODY_NONE == 0
BODY_RAW == 1
BODY_JSON_KV == 2

\* ABI words: one unit per static field, string or bytes field
AWord(n) == [k |-> "uint", v |-> n]
ABool(b) == [k |-> "abool", v |-> b]
AStr(str) == [k |-> "astr", v |-> str]
AText(cs) == [k |-> "atext", v |-> cs]
ABytes(bs) == [k |-> "abytes", v |-> bs]

\* <(Vec<String>, Vec<String>)>::abi_encode
abi_encode_kv(keys, values) ==
    <<AWord(Len(keys))>> \o [i \in 1..Len(keys) |-> AStr(keys[i])]
    \o <<AWord(Len(values))>> \o [i \in 1..Len(values) |-> AText(values[i])]

encode_json_body(json_val) ==
    IF json_val.t = "obj"
      THEN LET keys == KeysIn(BTreeOrder, DOMAIN json_val.v)
               values == [i \in 1..Len(keys) |->
                            to_string(BTreeOrder, json_val.v[keys[i]])]
           IN  [body |-> abi_encode_kv(keys, values), bodyEncoding |-> BODY_JSON_KV]
      ELSE [body |-> to_string(BTreeOrder, json_val), bodyEncoding |-> BODY_RAW]

\* filter_map(|v| v.as_u64().map(|n| n as u8))
UnknownBytes(arr) ==
    LET nums == SelectSeq(arr, LAMBDA e : e.t = "num" /\ e.v >= 0)
    IN  [i \in 1..Len(nums) |-> Byte(nums[i].v % 256)]

parse_body_json_raw(val) ==
    IF val.t \in {"missing", "null"} THEN [body |-> <<>>, bodyEncoding |-> BODY_NONE]
    ELSE IF Get(val, "Json").t # "missing"
      THEN [body |-> to_string(BTreeOrder, Get(val, "Json")), bodyEncoding |-> BODY_RAW]
    ELSE IF Get(val, "Unknown").t = "arr"
      THEN [body |-> UnknownBytes(Get(val, "Unknown").v), bodyEncoding |-> BODY_RAW]
      ELSE [body |-> <<>>, bodyEncoding |-> BODY_NONE]

parse_body(val) ==
    IF val.t \in {"missing", "null"} THEN [body |-> <<>>, bodyEncoding |-> BODY_NONE]
    ELSE IF Get(val, "Json").t # "missing" THEN encode_json_body(Get(val, "Json"))
    ELSE IF Get(val, "Unknown").t = "arr"
      THEN [body |-> UnknownBytes(Get(val, "Unknown").v), bodyEncoding |-> BODY_RAW]
      ELSE [body |-> <<>>, bodyEncoding |-> BODY_NONE]

EmptyHeader == [name |-> "", value |-> ""]

parse_headers(val) ==
    IF val.t # "arr" THEN <<>>
    ELSE [i \in 1..Len(val.v) |->
            LET header == val.v[i] IN
            IF header.t = "arr"
              THEN [name |-> IF Len(header.v) >= 1 THEN StrOrEmpty(header.v[1]) ELSE "",
                    value |-> IF Len(header.v) >= 2 THEN StrOrEmpty(header.v[2]) ELSE ""]
              ELSE EmptyHeader]

parse_request(val) ==
    IF val.t = "null"
      THEN [present |-> FALSE, method |-> "", target |-> "", headers |-> <<>>,
            body |-> <<>>, bodyEncoding |-> BODY_NONE]
      ELSE LET b == parse_body(Get(val, "body")) IN
           [present |-> TRUE,
            method |-> StrOrEmpty(Get(val, "method")),
            target |-> StrOrEmpty(Get(val, "target")),
            headers |-> parse_headers(Get(val, "headers")),
            body |-> b.body, bodyEncoding |-> b.bodyEncoding]

parse_response(val) ==
    IF val.t = "null"
      THEN [present |-> FALSE, status |-> 0, headers |-> <<>>,
            body |-> <<>>, bodyEncoding |-> BODY_NONE]
      ELSE LET b == parse_body(Get(val, "body")) IN
           [present |-> TRUE,
            status |-> U64OrZero(Get(val, "status")) % 65536,
            headers |-> parse_headers(Get(val, "headers")),
            body |-> b.body, bodyEncoding |-> b.bodyEncoding]

parse_attestation_drop_null(ctx) ==
    LET requests_val == SelectSeq(ArrayOrEmpty(Get(ctx, "requests")),
                                  LAMBDA e : e.t # "null")
        responses_val == SelectSeq(ArrayOrEmpty(Get(ctx, "responses")),
                                   LAMBDA e : e.t # "null")
    IN  [requests |-> [i \in 1..Len(requests_val) |-> parse_request(requests_val[i])],
         responses |-> [i \in 1..Len(responses_val) |-> parse_response(responses_val[i])]]

parse_attestation(ctx) ==
    LET requests_val == ArrayOrEmpty(Get(ctx, "requests"))
        responses_val == ArrayOrEmpty(Get(ctx, "responses"))
    IN  [requests |-> [i \in 1..Len(requests_val) |-> parse_request(requests_val[i])],
         responses |-> [i \in 1..Len(responses_val) |-> parse_response(responses_val[i])]]

EncHeaders(hs) ==
    <<AWord(Len(hs))>>
    \o ConcatAll([i \in 1..Len(hs) |-> <<AStr(hs[i].name), AStr(hs[i].value)>>])

EncRequest(r) ==
    <<ABool(r.present), AStr(r.method), AStr(r.target)>> \o EncHeaders(r.headers)
    \o <<ABytes(r.body), AWord(r.bodyEncoding)>>

EncResponse(r) ==
    <<ABool(r.present), AWord(r.status)>> \o EncHeaders(r.headers)
    \o <<ABytes(r.body), AWord(r.bodyEncoding)>>

\* Attestation::abi_encode: a head of two offsets, then the two dynamic
\* arrays, each a length word followed by its elements
abi_encode(att) ==
    LET reqs == <<AWord(Len(att.requests))>>
                \o ConcatAll([i \in 1..Len(att.requests) |-> EncRequest(att.requests[i])])
        resps == <<AWord(Len(att.responses))>>
                 \o ConcatAll([i \in 1..Len(att.responses) |-> EncResponse(att.responses[i])])
    IN  <<AWord(2), AWord(2 + Len(reqs))>> \o reqs \o resps

\* the array lengths an ABI decoder reads back from the encoded Attestation
abi_requests_len(data) == data[data[1].v + 1].v
abi_responses_len(data) == data[data[2].v + 1].v

Sha256(data) == [k |-> "sha256", v |-> data]
Keccak256(data) == [k |-> "keccak256", v |-> data]
Eip712Hash(domain, att) == [k |-> "eip712", v |-> [att |-> att, domain |-> domain]]

DefaultDomain == "SimpleNotary"

eip712_encode_typed(domain, x) ==
    LET att == parse_attestation(x)
    IN  [data |-> <<AStr(domain)>> \o abi_encode(att),
         digest |-> Eip712Hash(domain, att)]

\* Eip712Encoder::encode of an encoder built with `domain`
eip712_encode(domain, x) ==
    LET att == parse_attestation(x)
    IN  [data |-> abi_encode(att), digest |-> Eip712Hash(domain, att)]

\* ContextEncoder::encode of the encoder named `name`
encode(name, x) ==
    CASE name = "json" ->
            LET json_bytes == to_string(BTreeOrder, x)
            IN  [data |-> json_bytes, digest |-> Sha256(json_bytes)]
      [] name = "abi" ->
            LET data == abi_encode(parse_attestation(x))
            IN  [data |-> data, digest |-> Keccak256(data)]
      [] name = "eip712" -> eip712_encode(DefaultDomain, x)

\* hex::encode / hex::decode
hex_encode(bytes) == [i \in 1..Len(bytes) |-> [k |-> "hex", v |-> bytes[i]]]
hex_decode(str) == [i \in 1..Len(str) |-> str[i].v]

(***************************************************************************)
(* encoding/embedding.rs: EmbeddingEncoder.  An f32 component is an        *)
(* integer; the scale factor m * 10^18 is kept as the pair ("wad", m).     *)
(***************************************************************************)
QUANT_FLOAT32 == 0
QUANT_INT8 == 1

None == "None"      \* Option::None of an EncodeOptions field

\* EncodeOptions::default()
DefaultOptions == [embedding_model |-> None, quantization |-> None]

\* resolve_model(name).is_some()
resolve_model(name) ==
    name \in {"all-MiniLM-L6-v2", "all-MiniLM-L12-v2", "nomic-embed-text-v1.5",
              "bge-small-en-v1.5"}

\* encode, lines 88-89: the requested model, or the default
select_model(allowed_models, options) ==
    IF options.embedding_model # None THEN options.embedding_model
    ELSE IF Len(allowed_models) > 0 THEN allowed_models[1]
    ELSE "all-MiniLM-L6-v2"

model_allowed_any(allowed_models, model_name) == resolve_model(model_name)

\* encode, line 91: self.allowed_models.iter().any(|m| m == model_name)
model_allowed(allowed_models, model_name) ==
    \E i \in 1..Len(allowed_models) : allowed_models[i] = model_name

\* TextEmbedding::embed of a loaded model: the vector is a function of the
\* model and of the text (the test deterministic_float32)
model_embed(model, text) ==
    LET n == Len(text)
        base == IF n <= 1 THEN <<0, 0>> ELSE <<(n % 5) - 2, 3 - (n % 4)>>
    IN  IF model = "all-MiniLM-L6-v2" THEN base ELSE base \o <<-4>>

Abs(f) == IF f < 0 THEN -f ELSE f

RECURSIVE MaxAbs(_)
\* raw_embedding.iter().map(|f| f.abs()).fold(0.0, f32::max)
MaxAbs(v) ==
    IF Len(v) = 0 THEN 0
    ELSE LET m == MaxAbs(Tail(v)) IN IF Abs(Head(v)) > m THEN Abs(Head(v)) ELSE m

\* f32::to_be_bytes: the four bytes of one component, most significant first
f32_to_be_bytes(f) == [i \in 1..4 |-> [k |-> "f32", v |-> <<f, 4 - i>>]]

\* (f / max_abs * 127.0).round().clamp(-127.0, 127.0) as i8 as u8
quantize_int8(f, max_abs) ==
    LET mag == (2 * 127 * Abs(f) + max_abs) \div (2 * max_abs)
        clamped == IF mag > 127 THEN 127 ELSE mag
        q == IF f < 0 THEN -clamped ELSE clamped
    IN  Byte((q + 256) % 256)

\* U256::from((max_abs as f64 * WAD as f64) as u128)
ScaleWad(max_abs) == [k |-> "wad", v |-> max_abs]

\* encode_attestation, lines 145-162
encode_attestation(model_name, dimensions, quantization, embedding_bytes, scale_wad) ==
    LET data == <<AStr(model_name), AWord(dimensions), AWord(quantization),
                  ABytes(embedding_bytes), scale_wad>>
    IN  [data |-> data, digest |-> Keccak256(data)]

\* encode, lines 95 and 101-133: what follows the inference
finish_encode(model_name, raw_embedding, options) ==
    LET quantization == IF options.quantization = None THEN "Float32"
                        ELSE options.quantization
        dimensions == Len(raw_embedding) % 65536
        max_abs == MaxAbs(raw_embedding)
    IN  IF quantization = "Float32"
          THEN encode_attestation(model_name, dimensions, QUANT_FLOAT32,
                   ConcatAll([i \in 1..Len(raw_embedding) |->
                                f32_to_be_bytes(raw_embedding[i])]),
                   ScaleWad(0))
        ELSE IF max_abs = 0
          THEN encode_attestation(model_name, dimensions, QUANT_INT8,
                   [i \in 1..Len(raw_embedding) |-> Byte(0)], ScaleWad(0))
          ELSE encode_attestation(model_name, dimensions, QUANT_INT8,
                   [i \in 1..Len(raw_embedding) |->
                        quantize_int8(raw_embedding[i], max_abs)],
                   ScaleWad(max_abs))

(***************************************************************************)
(* signing/signer.rs: ContextSigner                                        *)
(***************************************************************************)
sign_digest(alg, digest) == <<[k |-> "sig", v |-> [alg |-> alg, digest |-> digest]]>>
public_key_bytes(alg) == <<[k |-> "pk", v |-> alg]>>

(***************************************************************************)
(* The contexts a verified transcript yields, and the views a prover may   *)
(* ask the notary to sign.                                                 *)
(***************************************************************************)
Ctx1 ==
    JObj([requests |-> JArr(<<
            JObj([method |-> JStr("GET"), target |-> JStr("/"),
                  headers |-> JArr(<<JArr(<<JStr("Host"), JStr("example.com")>>)>>),
                  body |-> JNull])>>),
          responses |-> JArr(<<
            JObj([status |-> JNum(200),
                  headers |-> JArr(<<JArr(<<JStr("Content-Length"), JStr("2")>>)>>),
                  body |-> JObj([Unknown |-> JArr(<<JNum(79), JNum(75)>>)])])>>)])

Ctx2 ==
    JObj([requests |-> JArr(<<
            JObj([method |-> JStr("POST"), target |-> JStr("/a"),
                  headers |-> JArr(<<>>),
                  body |-> JObj([Json |-> JObj([a |-> JNum(1)])])]),
            JNull>>),
          responses |-> JArr(<<>>)])

Contexts == {Ctx1, Ctx2}

RECURSIVE ReplaceAt(_, _, _)
ReplaceAt(x, p, new) ==
    IF Len(p) = 0 THEN new
    ELSE IF "ix" \in DOMAIN Head(p)
      THEN JArr([x.v EXCEPT ![Head(p).ix] = ReplaceAt(x.v[Head(p).ix], Tail(p), new)])
      ELSE JObj([x.v EXCEPT ![Head(p).key] = ReplaceAt(x.v[Head(p).key], Tail(p), new)])

RemoveStep(x, st) ==
    IF "ix" \in DOMAIN st
      THEN JArr(Take(x.v, st.ix - 1) \o Drop(x.v, st.ix))
      ELSE JObj([kk \in DOMAIN x.v \ {st.key} |-> x.v[kk]])

RemoveAt(x, p) ==
    LET parent == Take(p, Len(p) - 1)
    IN  ReplaceAt(x, parent, RemoveStep(At(x, parent), p[Len(p)]))

Tamper(n) ==
    CASE n.t = "num" -> JNum(n.v + 1)
      [] n.t = "str" -> JStr("tampered")
      [] n.t = "bool" -> JBool(~n.v)
      [] n.t = "null" -> JBool(TRUE)
      [] n.t = "arr" -> JStr("tampered")
      [] n.t = "obj" -> JArr(<<>>)

Grow(n) ==
    IF n.t = "arr" THEN JArr(Append(n.v, JNull))
    ELSE JObj(MapInsert(n.v, "extra", JNull))

\* views at one edit from the context: a value nulled, a key or an element
\* removed, a value changed, an element or a key added; and some at two
Candidates(x) ==
    LET ps == Paths(x)
        removed == {RemoveAt(x, p) : p \in ps \ {<<>>}}
    IN  {x, JNull, JObj(<<>>)}
        \cup {ReplaceAt(x, p, JNull) : p \in ps}
        \cup removed
        \cup {ReplaceAt(x, p, Tamper(At(x, p))) : p \in ps}
        \cup {ReplaceAt(x, p, Grow(At(x, p))) : p \in {q \in ps : At(x, q).t \in {"arr", "obj"}}}
        \cup UNION {{ReplaceAt(c, p, JNull) : p \in {q \in Paths(c) : Len(q) = 4}} :
                        c \in {RemoveAt(x, p) : p \in {q \in ps : Len(q) = 3}}}

\* what a prover may put in a frame
ProverPayloads(x) ==
    {serialize_message([type |-> "SignRequest"])}
    \cup {serialize_message([type |-> "SignFiltered", data |-> to_string(BTreeOrder, c)]) :
            c \in Candidates(x)}
    \cup {serialize_message([type |-> "SignFiltered", data |-> <<LBrace>>]),
          serialize_message([type |-> "Bogus"]),
          <<LBrace>>}

\* well-formed frames, and frames whose length prefix does not match
ProverFrames(x) ==
    {Frame(pl) : pl \in ProverPayloads(x)}
    \cup {to_be_bytes(n) \o serialize_message([type |-> "SignRequest"]) :
            n \in {0, 4, MAX_MESSAGE_SIZE - 1, MAX_MESSAGE_SIZE,
                   MAX_MESSAGE_SIZE + 1, 2147483647}}

\* how much of a frame the prover's first write delivers
SendCuts(frame) == {2, 4, Len(frame) - 1, Len(frame)}

(***************************************************************************)
(* main.rs, server.rs, signing/exchange.rs: one session                    *)
(***************************************************************************)
Algorithms == {"secp256k1", "ethereum-secp256k1", "rsa-pkcs1v15-sha256"}
Encoders == {"json", "abi", "eip712"}

\* the allow-lists an embedding encoder is started with
AllowLists ==
    {<<>>, <<"all-MiniLM-L6-v2">>, <<"unknown-model", "all-MiniLM-L6-v2">>}

\* the encoder a server is started with: its name and, for the embedding
\* encoder, its allow-list
EncoderSetups ==
    {[encoder |-> e, allowed |-> <<>>] : e \in Encoders}
    \cup {[encoder |-> "embedding", allowed |-> a] : a \in AllowLists}

\* NotarizationContextFormat
ContextFormats == {"Json", "Binary"}

NoCfg == [encoder |-> "", allowed |-> <<>>, algorithm |-> "", signer |-> FALSE,
          context_format |-> ""]
NoWrite == [kind |-> "none", payload |-> <<>>]
NoEncoded == [data |-> <<>>, digest |-> Sha256(<<>>)]

ExIdle ==
    /\ pc = "startup"
    /\ cfg = NoCfg
    /\ context = JNull
    /\ canonical_json = <<>>
    /\ wr = NoWrite
    /\ rd_len = 0
    /\ prover_msg = NoMessage
    /\ value_to_encode = JNull
    /\ encoded = NoEncoded
    /\ signature_bytes = <<>>
    /\ err = ""
    /\ out = <<>>
    /\ inp = <<>>
    /\ in_eof = FALSE
    /\ prover_state = "idle"
    /\ script = <<>>
    /\ events = <<>>
    /\ consumed = <<>>
    /\ encode_args = <<>>
    /\ sign_args = <<>>

SubIdle ==
    /\ sub_pc = "idle"
    /\ sub_filtered = JNull
    /\ sub_original = JNull
    /\ sub_result = "none"

FrIdle ==
    /\ fr_T = "none"
    /\ fr_queue = <<>>
    /\ fr_written = 0
    /\ fr_wpc = "idle"
    /\ fr_wire = <<>>
    /\ fr_rpc = "idle"
    /\ fr_rlen = 0
    /\ fr_rcvd = <<>>
    /\ fr_used = <<>>

NzIdle ==
    /\ nz_pc = "idle"
    /\ nz_drv = "none"
    /\ nz_io = "caller"
    /\ nz_log = <<>>

NumSessions == 2    \* concurrent sessions sharing one EmbeddingEncoder

Sessions == 1..NumSessions

NoCall == [options |-> DefaultOptions, context |-> JNull]
NoLocal == [model_name |-> "", json_text |-> <<>>, instance |-> 0,
            cached |-> FALSE, raw_embedding |-> <<>>, err |-> ""]

EmbIdle ==
    /\ emb_allowed = <<>>
    /\ emb_models = {}
    /\ emb_lock = 0
    /\ emb_pc = [s \in Sessions |-> "idle"]
    /\ emb_call = [s \in Sessions |-> NoCall]
    /\ emb_local = [s \in Sessions |-> NoLocal]
    /\ emb_done = {}
    /\ emb_loads = <<>>
    /\ emb_started = 0

NoRequest == [path |-> "", method |-> "", upgrade |-> "", context_format |-> ""]
NoError == [variant |-> "", msg |-> ""]
NoResponse == [status |-> 0, body |-> <<>>]

HttpIdle ==
    /\ http_pc = "idle"
    /\ http_req = NoRequest
    /\ http_rejection = NoError
    /\ http_resp = NoResponse
    /\ http_sessions = 0
    /\ http_served = 0

NoAttestation == [requests |-> <<>>, responses |-> <<>>]

EncIdle ==
    /\ en_pc = "done"
    /\ en_original = JNull
    /\ en_view = JNull
    /\ en_domain = ""
    /\ en_accepted = FALSE
    /\ en_att = NoAttestation
    /\ en_abi = NoEncoded
    /\ en_eip712 = NoEncoded

TrIdle ==
    /\ tr_pc = "done"
    /\ tr_a = JNull
    /\ tr_b = JNull
    /\ tr_c = JNull
    /\ tr_ab = "none"
    /\ tr_bc = "none"
    /\ tr_ac = "none"

Init ==
    ExIdle /\ SubIdle /\ FrIdle /\ NzIdle /\ EmbIdle /\ HttpIdle /\ EncIdle /\ TrIdle

streamVars == <<out, inp, in_eof, prover_state, script>>
localVars == <<canonical_json, wr, rd_len, prover_msg, value_to_encode,
               encoded, signature_bytes>>
histVars == <<events, consumed, encode_args, sign_args>>

\* main.rs: the signer and the encoder are chosen, then checked for
\* compatibility
incompatible_abi_only(algo, enc) == algo = "rsa-pkcs1v15-sha256" /\ enc = "abi"

\* main.rs 88: the signer/encoder pairs main refuses to start with
incompatible(algo, enc) == algo = "rsa-pkcs1v15-sha256" /\ enc # "json"

Main ==
    /\ pc = "startup"
    /\ \E seed \in BOOLEAN, alg \in Algorithms, setup \in EncoderSetups :
        /\ cfg' = [encoder |-> setup.encoder, allowed |-> setup.allowed,
                   algorithm |-> alg, signer |-> seed, context_format |-> ""]
        /\ pc' = IF seed /\ incompatible(alg, setup.encoder)
                   THEN "startup_panic" ELSE "verifier"
    /\ UNCHANGED <<context, err, localVars, streamVars, histVars, harnessVars>>

after_verifier_exchange(signer) == "exchange"

\* server.rs 106-110: `if let Some(signer) = signer`
after_verifier(signer) == IF signer THEN "exchange" ELSE "legacy"

\* server.rs handle_notarize: notarize(..).await.unwrap() returns the
\* transcript and the stream; the HttpContext is built
VerifierDone ==
    /\ pc = "verifier"
    /\ \E c \in Contexts : context' = c
    /\ events' = Append(events, "verifier_done")
    /\ pc' = after_verifier(cfg.signer)
    /\ UNCHANGED <<cfg, err, localVars, streamVars, consumed, encode_args,
                   sign_args, harnessVars>>

VerifierFail ==
    /\ pc = "verifier"
    /\ pc' = "panicked"
    /\ UNCHANGED <<cfg, context, err, localVars, streamVars, histVars, harnessVars>>

\* server.rs 110-118, legacy mode: context_format is matched; for Json the
\* context is turned into a Value and its text written with write_all, the
\* result unwrapped; every other format reaches todo!().  The stream is
\* dropped when handle_notarize returns.
LegacyWrite ==
    /\ pc = "legacy"
    /\ \E f \in ContextFormats :
        /\ cfg' = [cfg EXCEPT !.context_format = f]
        /\ IF f = "Json"
             THEN \E o \in write_all(to_string(BTreeOrder, context)) :
                    /\ out' = out \o o.written
                    /\ events' = Append(events, "write_legacy")
                    /\ pc' = IF o.ok THEN "closed" ELSE "panicked"
             ELSE /\ pc' = "panicked"
                  /\ UNCHANGED <<out, events>>
    /\ UNCHANGED <<context, err, localVars, inp, in_eof, prover_state, script,
                   consumed, encode_args, sign_args, harnessVars>>

SendContextEncoded ==
    /\ pc = "exchange"
    /\ canonical_json' = to_string(StructOrder, context)
    /\ wr' = [kind |-> "Context",
              payload |-> serialize_message(
                 [type |-> "Context",
                  data |-> IF cfg.encoder \in {"abi", "eip712"}
                             THEN hex_encode(encode(cfg.encoder, context).data)
                             ELSE canonical_json'])]
    /\ pc' = "w_len"
    /\ UNCHANGED <<cfg, context, err, rd_len, prover_msg, value_to_encode,
                   encoded, signature_bytes, streamVars, histVars, harnessVars>>

\* exchange.rs 24-29, protocol.rs 37: serialize the context, build the
\* Context message and its payload
SendContext ==
    /\ pc = "exchange"
    /\ canonical_json' = to_string(StructOrder, context)
    /\ wr' = [kind |-> "Context",
              payload |-> serialize_message([type |-> "Context",
                                             data |-> canonical_json'])]
    /\ pc' = "w_len"
    /\ UNCHANGED <<cfg, context, err, rd_len, prover_msg, value_to_encode,
                   encoded, signature_bytes, streamVars, histVars, harnessVars>>

WriteEvent(kind) == IF kind = "Context" THEN "write_context" ELSE "write_signed"

\* where the exchange goes once write_message has returned Ok
after_write_again(kind) == IF kind = "Context" THEN "r_len" ELSE "send_signed"

after_write(kind) == IF kind = "Context" THEN "r_len" ELSE "done"

\* protocol.rs 38: writer.write_all(&len.to_be_bytes())
WriteLenPrefix ==
    /\ pc = "w_len"
    /\ \E o \in write_all(to_be_bytes(as_u32(payload_len(wr.payload)))) :
        /\ out' = out \o o.written
        /\ pc' = IF o.ok THEN "w_payload" ELSE "failed"
        /\ err' = IF o.ok THEN err ELSE "writing length prefix"
    /\ events' = Append(events, WriteEvent(wr.kind))
    /\ UNCHANGED <<cfg, context, localVars, inp, in_eof, prover_state, script,
                   consumed, encode_args, sign_args, harnessVars>>

\* protocol.rs 39: writer.write_all(&payload)
WritePayload ==
    /\ pc = "w_payload"
    /\ \E o \in write_all(wr.payload) :
        /\ out' = out \o o.written
        /\ pc' = IF o.ok THEN "w_flush" ELSE "failed"
        /\ err' = IF o.ok THEN err ELSE "writing payload"
    /\ events' = Append(events, WriteEvent(wr.kind))
    /\ UNCHANGED <<cfg, context, localVars, inp, in_eof, prover_state, script,
                   consumed, encode_args, sign_args, harnessVars>>

\* protocol.rs 40-41: writer.flush(); on Ok the exchange goes on
FlushWriter ==
    /\ pc = "w_flush"
    /\ \/ pc' = after_write(wr.kind) /\ err' = err
       \/ pc' = "failed" /\ err' = "flushing writer"
    /\ UNCHANGED <<cfg, context, localVars, streamVars, histVars, harnessVars>>

ReadLenPrefix_ignore_eof ==
    /\ pc = "r_len"
    /\ Len(inp) >= 4
    /\ LET len == from_be_bytes(Take(inp, 4)) IN
          /\ rd_len' = len
          /\ pc' = IF too_large(len) THEN "failed" ELSE "r_payload"
          /\ err' = IF too_large(len) THEN "message too large" ELSE err
    /\ inp' = Drop(inp, 4)
    /\ consumed' = Append(consumed, 4)
    /\ events' = Append(events, "read")
    /\ UNCHANGED <<cfg, context, canonical_json, wr, prover_msg, value_to_encode,
                   encoded, signature_bytes, out, in_eof, prover_state, script,
                   encode_args, sign_args, harnessVars>>

\* protocol.rs 50-56: read_exact of the length prefix, then the size check
ReadLenPrefix ==
    /\ pc = "r_len"
    /\ \/ /\ Len(inp) >= 4
          /\ LET len == from_be_bytes(Take(inp, 4)) IN
                /\ rd_len' = len
                /\ pc' = IF too_large(len) THEN "failed" ELSE "r_payload"
                /\ err' = IF too_large(len) THEN "message too large" ELSE err
          /\ inp' = Drop(inp, 4)
          /\ consumed' = Append(consumed, 4)
       \/ /\ Len(inp) < 4
          /\ in_eof
          /\ inp' = <<>>
          /\ consumed' = Append(consumed, Len(inp))
          /\ pc' = "failed"
          /\ err' = "reading length prefix"
          /\ UNCHANGED rd_len
    /\ events' = Append(events, "read")
    /\ UNCHANGED <<cfg, context, canonical_json, wr, prover_msg, value_to_encode,
                   encoded, signature_bytes, out, in_eof, prover_state, script,
                   encode_args, sign_args, harnessVars>>

\* protocol.rs 58-60: read_exact of the payload, then deserialization
ReadPayload ==
    /\ pc = "r_payload"
    /\ \/ /\ Len(inp) >= rd_len
          /\ LET d == deserialize_message("ProverMessage", Take(inp, rd_len)) IN
                /\ prover_msg' = d.msg
                /\ pc' = IF d.ok THEN "select" ELSE "failed"
                /\ err' = IF d.ok THEN err ELSE "deserializing message"
          /\ inp' = Drop(inp, rd_len)
          /\ consumed' = Append(consumed, rd_len)
       \/ /\ Len(inp) < rd_len
          /\ in_eof
          /\ inp' = <<>>
          /\ consumed' = Append(consumed, Len(inp))
          /\ pc' = "failed"
          /\ err' = "reading payload"
          /\ UNCHANGED prover_msg
    /\ events' = Append(events, "read")
    /\ UNCHANGED <<cfg, context, canonical_json, wr, rd_len, value_to_encode,
                   encoded, signature_bytes, out, in_eof, prover_state, script,
                   encode_args, sign_args, harnessVars>>

\* a read on the transport fails
ReadError ==
    /\ pc \in {"r_len", "r_payload"}
    /\ pc' = "failed"
    /\ err' = IF pc = "r_len" THEN "reading length prefix" ELSE "reading payload"
    /\ events' = Append(events, "read")
    /\ UNCHANGED <<cfg, context, localVars, streamVars, consumed, encode_args,
                   sign_args, harnessVars>>

SelFail(e) == [ok |-> FALSE, val |-> JNull, err |-> e]
SelOk(x) == [ok |-> TRUE, val |-> x, err |-> ""]

select_value_unchecked(msg, canonical) ==
    IF msg.type = "SignRequest"
      THEN LET r == from_str(canonical) IN
           IF r.ok THEN SelOk(r.val) ELSE SelFail("parsing canonical JSON as Value")
      ELSE LET original == from_str(canonical)
               filtered == from_str(msg.data)
           IN  IF ~original.ok THEN SelFail("parsing original context as JSON Value")
               ELSE IF ~filtered.ok THEN SelFail("parsing filtered context as JSON Value")
               ELSE SelOk(filtered.val)

select_value_original(msg, canonical) ==
    LET original == from_str(canonical) IN
    IF ~original.ok THEN SelFail("parsing original context as JSON Value")
    ELSE IF msg.type = "SignRequest" THEN SelOk(original.val)
    ELSE LET filtered == from_str(msg.data) IN
         IF ~filtered.ok THEN SelFail("parsing filtered context as JSON Value")
         ELSE IF ~is_json_subset(filtered.val, original.val)
           THEN SelFail("filtered context is not a valid subset of the original context")
           ELSE SelOk(original.val)

select_value_empty(msg, canonical) ==
    IF msg.type = "SignRequest" THEN SelOk(JObj(<<>>))
    ELSE LET original == from_str(canonical)
             filtered == from_str(msg.data)
         IN  IF ~original.ok THEN SelFail("parsing original context as JSON Value")
             ELSE IF ~filtered.ok THEN SelFail("parsing filtered context as JSON Value")
             ELSE IF ~is_json_subset(filtered.val, original.val)
               THEN SelFail("filtered context is not a valid subset of the original context")
               ELSE SelOk(filtered.val)

select_value_warn(msg, canonical) ==
    IF msg.type = "SignRequest"
      THEN LET r == from_str(canonical) IN
           IF r.ok THEN SelOk(r.val) ELSE SelFail("parsing canonical JSON as Value")
      ELSE LET original == from_str(canonical)
               filtered == from_str(msg.data)
           IN  IF ~original.ok THEN SelFail("parsing original context as JSON Value")
               ELSE IF ~filtered.ok THEN SelFail("parsing filtered context as JSON Value")
               ELSE IF ~is_json_subset(filtered.val, original.val)
                 THEN [ok |-> TRUE, val |-> filtered.val,
                       err |-> "filtered context is not a valid subset of the original context"]
                 ELSE SelOk(filtered.val)

\* exchange.rs 37-54: the value to encode
select_value(msg, canonical) ==
    IF msg.type = "SignRequest"
      THEN LET r == from_str(canonical) IN
           IF r.ok THEN SelOk(r.val) ELSE SelFail("parsing canonical JSON as Value")
      ELSE LET original == from_str(canonical)
               filtered == from_str(msg.data)
           IN  IF ~original.ok THEN SelFail("parsing original context as JSON Value")
               ELSE IF ~filtered.ok THEN SelFail("parsing filtered context as JSON Value")
               ELSE IF ~is_json_subset(filtered.val, original.val)
                 THEN SelFail("filtered context is not a valid subset of the original context")
                 ELSE SelOk(filtered.val)

SelectValue ==
    /\ pc = "select"
    /\ LET r == select_value(prover_msg, canonical_json) IN
        /\ value_to_encode' = r.val
        /\ pc' = IF r.ok THEN "encode" ELSE "failed"
        /\ err' = r.err
    /\ UNCHANGED <<cfg, context, canonical_json, wr, rd_len, prover_msg, encoded,
                   signature_bytes, streamVars, histVars, harnessVars>>

\* EmbeddingEncoder::encode in a server with one session: the cache is
\* empty, so the model is loaded (which may fail), then inference runs
\* (which may fail)
embedding_results(allowed_models, options, x) ==
    LET model_name == select_model(allowed_models, options)
        json_text == to_string(BTreeOrder, x)
        EncFail == [ok |-> FALSE, enc |-> NoEncoded]
    IN  IF ~model_allowed(allowed_models, model_name) THEN {EncFail}
        ELSE IF ~resolve_model(model_name) THEN {EncFail}
        ELSE {EncFail,
              [ok |-> TRUE,
               enc |-> finish_encode(model_name, model_embed(model_name, json_text),
                                     options)]}

\* the outcomes of encoder.encode for the configured encoder
encode_results(c, x) ==
    IF c.encoder = "embedding"
      THEN embedding_results(c.allowed, DefaultOptions, x)
      ELSE {[ok |-> TRUE, enc |-> encode(c.encoder, x)]}

\* exchange.rs 56-58: encoder.encode(&value_to_encode)
Encode ==
    /\ pc = "encode"
    /\ encode_args' = Append(encode_args, value_to_encode)
    /\ \E r \in encode_results(cfg, value_to_encode) :
        /\ encoded' = r.enc
        /\ pc' = IF r.ok THEN "sign" ELSE "failed"
        /\ err' = IF r.ok THEN err ELSE "encoding context"
    /\ UNCHANGED <<cfg, context, canonical_json, wr, rd_len, prover_msg,
                   value_to_encode, signature_bytes, streamVars, events,
                   consumed, sign_args, harnessVars>>

\* exchange.rs 60-62: signer.sign_digest(&encoded.digest), which may fail
SignDigestOfContext ==
    /\ pc = "sign"
    /\ sign_args' = Append(sign_args, Sha256(canonical_json))
    /\ \/ /\ signature_bytes' = sign_digest(cfg.algorithm, Sha256(canonical_json))
          /\ pc' = "send_signed"
          /\ err' = err
       \/ /\ pc' = "failed"
          /\ err' = "signing context digest"
          /\ UNCHANGED signature_bytes
    /\ UNCHANGED <<cfg, context, canonical_json, wr, rd_len, prover_msg,
                   value_to_encode, encoded, streamVars, events, consumed,
                   encode_args, harnessVars>>

SignDigest ==
    /\ pc = "sign"
    /\ sign_args' = Append(sign_args, encoded.digest)
    /\ \/ /\ signature_bytes' = sign_digest(cfg.algorithm, encoded.digest)
          /\ pc' = "send_signed"
          /\ err' = err
       \/ /\ pc' = "failed"
          /\ err' = "signing context digest"
          /\ UNCHANGED signature_bytes
    /\ UNCHANGED <<cfg, context, canonical_json, wr, rd_len, prover_msg,
                   value_to_encode, encoded, streamVars, events, consumed,
                   encode_args, harnessVars>>

data_str_hex(name, enc) == hex_encode(enc.data)

\* exchange.rs 65-69: the data string of the Signed message
data_str(name, enc) == IF name = "json" THEN enc.data ELSE hex_encode(enc.data)

\* exchange.rs 71-80, protocol.rs 37: build the Signed message and its payload
SendSigned ==
    /\ pc = "send_signed"
    /\ wr' = [kind |-> "Signed",
              payload |-> serialize_message(
                 [type |-> "Signed",
                  data |-> data_str(cfg.encoder, encoded),
                  format |-> cfg.encoder,
                  signature |-> hex_encode(signature_bytes),
                  public_key |-> hex_encode(public_key_bytes(cfg.algorithm)),
                  algorithm |-> cfg.algorithm])]
    /\ pc' = "w_len"
    /\ UNCHANGED <<cfg, context, canonical_json, rd_len, prover_msg,
                   value_to_encode, encoded, signature_bytes, err, streamVars,
                   histVars, harnessVars>>

SessionActive ==
    pc \in {"exchange", "w_len", "w_payload", "w_flush", "r_len", "r_payload",
            "select", "encode", "sign", "send_signed"}

\* the prover writes a frame, or the beginning of one
ProverSend ==
    /\ SessionActive
    /\ prover_state = "idle"
    /\ \E frame \in ProverFrames(context) :
        \E c \in SendCuts(frame) :
            /\ inp' = inp \o Take(frame, c)
            /\ script' = Drop(frame, c)
            /\ prover_state' = IF c = Len(frame) THEN "sent" ELSE "partial"
    /\ UNCHANGED <<pc, cfg, context, err, localVars, out, in_eof, histVars, harnessVars>>

\* the prover writes the rest of its frame
ProverSendRest ==
    /\ SessionActive
    /\ prover_state = "partial"
    /\ inp' = inp \o script
    /\ script' = <<>>
    /\ prover_state' = "sent"
    /\ UNCHANGED <<pc, cfg, context, err, localVars, out, in_eof, histVars, harnessVars>>

\* the prover closes its side of the stream
ProverClose ==
    /\ SessionActive
    /\ prover_state # "closed"
    /\ in_eof' = TRUE
    /\ prover_state' = "closed"
    /\ script' = <<>>
    /\ UNCHANGED <<pc, cfg, context, err, localVars, out, inp, histVars, harnessVars>>

Next ==
    \/ Main
    \/ VerifierDone
    \/ VerifierFail
    \/ LegacyWrite
    \/ SendContext
    \/ WriteLenPrefix
    \/ WritePayload
    \/ FlushWriter
    \/ ReadLenPrefix
    \/ ReadPayload
    \/ ReadError
    \/ SelectValue
    \/ Encode
    \/ SignDigest
    \/ SendSigned
    \/ ProverSend
    \/ ProverSendRest
    \/ ProverClose

Spec == Init /\ [][Next]_vars

\* the steps of run_signing_exchange that need nothing from the transport,
\* and its reads; pc enables at most one of them at a time
TaskStep ==
    \/ SendContext
    \/ ReadLenPrefix
    \/ ReadPayload
    \/ SelectValue
    \/ Encode
    \/ SignDigest
    \/ SendSigned

\* the writes and the flush of write_message
WriteStep ==
    \/ WriteLenPrefix
    \/ WritePayload
    \/ FlushWriter

\* The session task is scheduled whenever it can run: a step that needs
\* nothing from the transport is taken, and a read returns once the bytes it
\* waits for, or the end of the stream, are there.  Nothing makes the
\* transport accept what the notary writes, and nothing makes the prover act.
TaskFairness == WF_vars(TaskStep)

\* each write and flush the notary attempts is completed or failed by the
\* transport
WritesComplete == WF_vars(WriteStep)

\* the HttpContext of a transcript that holds no request and no response
EmptyContext == JObj([requests |-> JArr(<<>>), responses |-> JArr(<<>>)])

\* a server started with a signer has called run_signing_exchange
LiveInit ==
    /\ SubIdle /\ FrIdle /\ NzIdle /\ EmbIdle /\ HttpIdle /\ EncIdle /\ TrIdle
    /\ pc = "exchange"
    /\ cfg = [encoder |-> "json", allowed |-> <<>>, algorithm |-> "secp256k1",
              signer |-> TRUE, context_format |-> ""]
    /\ context = EmptyContext
    /\ canonical_json = <<>>
    /\ wr = NoWrite
    /\ rd_len = 0
    /\ prover_msg = NoMessage
    /\ value_to_encode = JNull
    /\ encoded = NoEncoded
    /\ signature_bytes = <<>>
    /\ err = ""
    /\ out = <<>>
    /\ inp = <<>>
    /\ in_eof = FALSE
    /\ prover_state = "idle"
    /\ script = <<>>
    /\ events = <<"verifier_done">>
    /\ consumed = <<>>
    /\ encode_args = <<>>
    /\ sign_args = <<>>

\* the steps of run_signing_exchange and of the prover
LiveNext ==
    \/ SendContext
    \/ WriteLenPrefix
    \/ WritePayload
    \/ FlushWriter
    \/ ReadLenPrefix
    \/ ReadPayload
    \/ ReadError
    \/ SelectValue
    \/ Encode
    \/ SignDigest
    \/ SendSigned
    \/ ProverSend
    \/ ProverSendRest
    \/ ProverClose

SpecLive == LiveInit /\ [][LiveNext]_vars /\ TaskFairness

(***************************************************************************)
(* notarize.rs: the verifier's handle and the driver task that owns the    *)
(* stream while the protocol runs, followed by the caller's first I/O.     *)
(***************************************************************************)
MaxDriverIO == 4    \* I/O operations the driver performs in one run

NotarizeInit ==
    /\ ExIdle
    /\ SubIdle
    /\ FrIdle
    /\ EmbIdle
    /\ HttpIdle
    /\ EncIdle
    /\ TrIdle
    /\ nz_pc = "start"
    /\ nz_drv = "none"
    /\ nz_io = "caller"
    /\ nz_log = <<>>

\* the stages of the verifier, notarize.rs 27-47, in order
VerifierStages ==
    <<"new_verifier", "commit", "accept", "run", "verify", "accept_prove", "close",
      "handle_close">>

StageAfter(st) ==
    LET i == CHOOSE k \in 1..Len(VerifierStages) : VerifierStages[k] = st
    IN  VerifierStages[i + 1]

\* notarize.rs 22-25: the stream moves into the session; the driver is spawned
NzSpawn ==
    /\ nz_pc = "start"
    /\ nz_io' = "driver"
    /\ nz_drv' = "running"
    /\ nz_pc' = "new_verifier"
    /\ UNCHANGED <<nz_log, exVars, subVars, frVars, embVars, httpVars, encVars, trVars>>

\* the driver task performs I/O on the stream for as long as it runs
NzDriverIO ==
    /\ nz_drv = "running"
    /\ Len(SelectSeq(nz_log, LAMBDA w : w = "driver")) < MaxDriverIO
    /\ nz_log' = Append(nz_log, "driver")
    /\ UNCHANGED <<nz_pc, nz_drv, nz_io, exVars, subVars, frVars, embVars, httpVars, encVars, trVars>>

\* notarize.rs 27-47: one stage of the verifier completes (the driver is
\* running), or fails and `?` returns the error: the handle is dropped and
\* the driver task is left detached
NzVerifierStage ==
    /\ nz_pc \in {"new_verifier", "commit", "accept", "run", "verify",
                  "accept_prove", "close"}
    /\ \/ nz_drv = "running" /\ nz_pc' = StageAfter(nz_pc)
       \/ nz_pc' = "error"
    /\ UNCHANGED <<nz_drv, nz_io, nz_log, exVars, subVars, frVars, embVars, httpVars, encVars, trVars>>

\* notarize.rs 50: handle.close()
NzHandleClose ==
    /\ nz_pc = "handle_close"
    /\ nz_pc' = "await_driver"
    /\ UNCHANGED <<nz_drv, nz_io, nz_log, exVars, subVars, frVars, embVars, httpVars, encVars, trVars>>

\* the driver future completes once the handle is closed or dropped, and
\* yields the stream; or it fails, and the stream is dropped with it
NzDriverFinish ==
    /\ nz_drv = "running"
    /\ \/ /\ nz_pc \in {"await_driver", "error"}
          /\ nz_drv' = "done"
          /\ nz_io' = IF nz_pc = "error" THEN "dropped" ELSE nz_io
       \/ /\ nz_drv' = "failed"
          /\ nz_io' = "dropped"
    /\ UNCHANGED <<nz_pc, nz_log, exVars, subVars, frVars, embVars, httpVars, encVars, trVars>>

driver_joined_on_close(drv) == drv \in {"running", "done"}

\* notarize.rs 51: driver_task.await has an output
driver_joined(drv) == drv = "done"

\* notarize.rs 51-63: `driver_task.await??` yields the stream, the
\* transcript is built and returned with the stream
NzAwaitDriver ==
    /\ nz_pc = "await_driver"
    /\ \/ /\ driver_joined(nz_drv)
          /\ nz_io' = "caller"
          /\ nz_pc' = "returned"
       \/ /\ nz_drv = "failed"
          /\ nz_pc' = "error"
          /\ UNCHANGED nz_io
    /\ UNCHANGED <<nz_drv, nz_log, exVars, subVars, frVars, embVars, httpVars, encVars, trVars>>

\* server.rs 106-109: the caller's I/O on the reclaimed stream (the first
\* writes of the signing exchange)
NzCallerIO ==
    /\ nz_pc \in {"returned", "exchange"}
    /\ Len(SelectSeq(nz_log, LAMBDA w : w = "caller")) < 2
    /\ nz_log' = Append(nz_log, "caller")
    /\ nz_pc' = "exchange"
    /\ UNCHANGED <<nz_drv, nz_io, exVars, subVars, frVars, embVars, httpVars, encVars, trVars>>

NotarizeNext ==
    \/ NzSpawn
    \/ NzDriverIO
    \/ NzVerifierStage
    \/ NzHandleClose
    \/ NzDriverFinish
    \/ NzAwaitDriver
    \/ NzCallerIO

SpecNotarize == NotarizeInit /\ [][NotarizeNext]_vars

(***************************************************************************)
(* encoding/embedding.rs: sessions calling encode on one EmbeddingEncoder. *)
(***************************************************************************)
MaxCalls == 3       \* encode calls made, over all sessions

\* the allow-lists of the encoders explored
EmbAllowLists ==
    {<<>>, <<"all-MiniLM-L6-v2">>,
     <<"bge-small-en-v1.5", "all-MiniLM-L6-v2", "unknown-model">>}

\* the encode calls sessions make: options and context
EmbCalls ==
    {[options |-> DefaultOptions, context |-> JNull],
     [options |-> [embedding_model |-> "all-MiniLM-L6-v2", quantization |-> "Int8"],
      context |-> JNull],
     [options |-> [embedding_model |-> "all-MiniLM-L6-v2", quantization |-> "Int8"],
      context |-> Ctx2],
     [options |-> [embedding_model |-> "bge-small-en-v1.5", quantization |-> "Float32"],
      context |-> Ctx2],
     [options |-> [embedding_model |-> "unknown-model", quantization |-> None],
      context |-> JNull]}

EmbeddingInit ==
    /\ ExIdle
    /\ SubIdle
    /\ FrIdle
    /\ NzIdle
    /\ HttpIdle
    /\ EncIdle
    /\ TrIdle
    /\ emb_allowed \in EmbAllowLists
    /\ emb_models = {}
    /\ emb_lock = 0
    /\ emb_pc = [s \in Sessions |-> "idle"]
    /\ emb_call = [s \in Sessions |-> NoCall]
    /\ emb_local = [s \in Sessions |-> NoLocal]
    /\ emb_done = {}
    /\ emb_loads = <<>>
    /\ emb_started = 0

\* the locals of a session whose encode call returned the error e
Returned(e) == [NoLocal EXCEPT !.err = e]

\* models.contains_key(model_name)
contains_key(models, model_name) == \E e \in models : e.name = model_name

cache_get_latest(models, model_name) ==
    CHOOSE e \in models : \A o \in models : o.instance <= e.instance

\* models.get(model_name): the entry stored under the name
cache_get(models, model_name) == CHOOSE e \in models : e.name = model_name

\* models.insert(model_name, model): an entry under the same name is replaced
cache_insert(models, entry) == {e \in models : e.name # entry.name} \cup {entry}

\* encode, lines 87-98: the model is selected and checked against the
\* allow-list, the context is serialized
EmbEncodeStart(s) ==
    /\ emb_pc[s] = "idle"
    /\ emb_started < MaxCalls
    /\ \E call \in EmbCalls :
        LET model_name == select_model(emb_allowed, call.options) IN
        /\ emb_started' = emb_started + 1
        /\ IF ~model_allowed(emb_allowed, model_name)
             THEN /\ emb_local' = [emb_local EXCEPT ![s] =
                        [NoLocal EXCEPT !.err = "model is not in the server's allowed list"]]
                  /\ emb_call' = [emb_call EXCEPT ![s] = call]
                  /\ UNCHANGED emb_pc
             ELSE /\ emb_local' = [emb_local EXCEPT ![s] =
                        [NoLocal EXCEPT !.model_name = model_name,
                                        !.json_text = to_string(BTreeOrder, call.context)]]
                  /\ emb_call' = [emb_call EXCEPT ![s] = call]
                  /\ emb_pc' = [emb_pc EXCEPT ![s] = "lock"]
    /\ UNCHANGED <<emb_allowed, emb_models, emb_lock, emb_done, emb_loads,
                   exVars, subVars, frVars, nzVars, httpVars, encVars, trVars>>

lock_free_always(holder) == TRUE

\* Mutex::lock returns once no other thread holds the mutex
lock_free(holder) == holder = 0

\* embed, line 61: self.models.lock()
EmbLock(s) ==
    /\ emb_pc[s] = "lock"
    /\ lock_free(emb_lock)
    /\ emb_lock' = s
    /\ emb_pc' = [emb_pc EXCEPT ![s] = "check"]
    /\ UNCHANGED <<emb_allowed, emb_models, emb_call, emb_local, emb_done,
                   emb_loads, emb_started, exVars, subVars, frVars, nzVars, httpVars, encVars, trVars>>

\* the guard returned by lock() is dropped when embed returns
unlock(holder, s) == IF holder = s THEN 0 ELSE holder

\* embed, lines 63-65: the cache is consulted; an unknown model name is an
\* error
EmbCheck(s) ==
    /\ emb_pc[s] = "check"
    /\ LET model_name == emb_local[s].model_name IN
        IF contains_key(emb_models, model_name)
          THEN /\ emb_local' = [emb_local EXCEPT ![s].cached = TRUE]
               /\ emb_pc' = [emb_pc EXCEPT ![s] = "infer"]
               /\ UNCHANGED <<emb_lock, emb_call>>
          ELSE IF ~resolve_model(model_name)
            THEN /\ emb_local' = [emb_local EXCEPT ![s] = Returned("unknown embedding model")]
                 /\ emb_call' = [emb_call EXCEPT ![s] = NoCall]
                 /\ emb_pc' = [emb_pc EXCEPT ![s] = "idle"]
                 /\ emb_lock' = unlock(emb_lock, s)
            ELSE /\ emb_pc' = [emb_pc EXCEPT ![s] = "load"]
                 /\ UNCHANGED <<emb_local, emb_lock, emb_call>>
    /\ UNCHANGED <<emb_allowed, emb_models, emb_done, emb_loads,
                   emb_started, exVars, subVars, frVars, nzVars, httpVars, encVars, trVars>>

\* embed, lines 67-74: TextEmbedding::try_new, which may fail, then
\* models.insert
EmbLoad(s) ==
    /\ emb_pc[s] = "load"
    /\ \/ LET entry == [name |-> emb_local[s].model_name,
                        instance |-> Len(emb_loads) + 1] IN
          /\ emb_models' = cache_insert(emb_models, entry)
          /\ emb_loads' = Append(emb_loads, entry)
          /\ emb_pc' = [emb_pc EXCEPT ![s] = "infer"]
          /\ UNCHANGED <<emb_local, emb_lock, emb_call>>
       \/ /\ emb_local' = [emb_local EXCEPT ![s] = Returned("loading embedding model")]
          /\ emb_call' = [emb_call EXCEPT ![s] = NoCall]
          /\ emb_pc' = [emb_pc EXCEPT ![s] = "idle"]
          /\ emb_lock' = unlock(emb_lock, s)
          /\ UNCHANGED <<emb_models, emb_loads>>
    /\ UNCHANGED <<emb_allowed, emb_done, emb_started,
                   exVars, subVars, frVars, nzVars, httpVars, encVars, trVars>>

\* embed, lines 77-83: inference on the cached instance, which may fail;
\* embed returns and the guard is dropped
EmbInfer(s) ==
    /\ emb_pc[s] = "infer"
    /\ LET model == cache_get(emb_models, emb_local[s].model_name) IN
        \/ /\ emb_local' = [emb_local EXCEPT
                              ![s].instance = model.instance,
                              ![s].raw_embedding =
                                  model_embed(model.name, emb_local[s].json_text)]
           /\ emb_pc' = [emb_pc EXCEPT ![s] = "finish"]
           /\ UNCHANGED emb_call
        \/ /\ emb_local' = [emb_local EXCEPT ![s] = Returned("running embedding inference")]
           /\ emb_call' = [emb_call EXCEPT ![s] = NoCall]
           /\ emb_pc' = [emb_pc EXCEPT ![s] = "idle"]
    /\ emb_lock' = unlock(emb_lock, s)
    /\ UNCHANGED <<emb_allowed, emb_models, emb_done, emb_loads,
                   emb_started, exVars, subVars, frVars, nzVars, httpVars, encVars, trVars>>

\* encode, lines 101-133: quantization and encode_attestation; encode
\* returns Ok
EmbFinish(s) ==
    /\ emb_pc[s] = "finish"
    /\ emb_done' = emb_done \cup
            {[call |-> emb_call[s], cached |-> emb_local[s].cached,
              enc |-> finish_encode(emb_local[s].model_name,
                                    emb_local[s].raw_embedding,
                                    emb_call[s].options)]}
    /\ emb_pc' = [emb_pc EXCEPT ![s] = "idle"]
    /\ emb_call' = [emb_call EXCEPT ![s] = NoCall]
    /\ emb_local' = [emb_local EXCEPT ![s] = NoLocal]
    /\ UNCHANGED <<emb_allowed, emb_models, emb_lock,
                   emb_loads, emb_started, exVars, subVars, frVars, nzVars, httpVars, encVars, trVars>>

EmbeddingNext ==
    \E s \in Sessions :
        \/ EmbEncodeStart(s)
        \/ EmbLock(s)
        \/ EmbCheck(s)
        \/ EmbLoad(s)
        \/ EmbInfer(s)
        \/ EmbFinish(s)

SpecEmbedding == EmbeddingInit /\ [][EmbeddingNext]_vars

(***************************************************************************)
(* The HTTP front end: the router of server.rs, the ProtocolUpgrade and    *)
(* Query extractors of /notarize, and NotaryServerError as a response.     *)
(***************************************************************************)
MaxRequests == 2    \* requests served one after another

Variants == {"Unexpected", "Connection", "Notarization", "BadProverRequest",
             "UnauthorizedProverRequest", "CredentialSigningKeyError"}

UpgradeHeaderNotSet == "Upgrade header is not set for client"

ErrorMessages == {"", "bad", "unauth", "conn failed", "key error",
                  UpgradeHeaderNotSet, "handshake", "eof", "timeout"}

NotaryServerErrors == [variant : Variants, msg : ErrorMessages]

\* the Display text of an error: the #[error] prefix, then the payload
error_to_string(e) ==
    CASE e.variant = "Unexpected" -> <<e.msg>>
      [] e.variant = "Connection" -> <<"Failed to connect to prover: ", e.msg>>
      [] e.variant = "Notarization" ->
            <<"Error occurred during notarization: ", e.msg>>
      [] e.variant = "BadProverRequest" ->
            <<"Invalid request from prover: ", e.msg>>
      [] e.variant = "UnauthorizedProverRequest" ->
            <<"Unauthorized request from prover: ", e.msg>>
      [] e.variant = "CredentialSigningKeyError" ->
            <<"Failed to read credential signing key: ", e.msg>>

into_response_unauthorized_400(e) ==
    CASE e.variant \in {"BadProverRequest", "UnauthorizedProverRequest"} ->
            [status |-> 400, body |-> error_to_string(e)]
      [] OTHER -> [status |-> 500, body |-> <<"Something wrong happened.">>]

\* NotaryServerError::into_response
into_response(e) ==
    CASE e.variant = "BadProverRequest" ->
            [status |-> 400, body |-> error_to_string(e)]
      [] e.variant = "UnauthorizedProverRequest" ->
            [status |-> 401, body |-> error_to_string(e)]
      [] OTHER -> [status |-> 500, body |-> <<"Something wrong happened.">>]

HttpPaths == {"/healthcheck", "/notarize", "/nonexistent"}

\* upgrade "" is a request without an Upgrade header; context_format "" is a
\* query string without a usable context_format
HttpRequests == [path : HttpPaths, method : {"GET", "POST"},
                 upgrade : {"", "websocket", "h2c"},
                 context_format : ContextFormats \cup {""}]

HttpInit ==
    /\ ExIdle
    /\ SubIdle
    /\ FrIdle
    /\ NzIdle
    /\ EmbIdle
    /\ HttpIdle
    /\ EncIdle
    /\ TrIdle

\* Router: /healthcheck is a GET route, /notarize takes any method, every
\* other path is not found.
HttpRoute ==
    /\ http_pc = "idle"
    /\ http_served < MaxRequests
    /\ \E r \in HttpRequests :
        /\ http_req' = r
        /\ CASE r.path = "/healthcheck" ->
                    /\ http_resp' = IF r.method = "GET"
                                      THEN [status |-> 200, body |-> <<"Ok">>]
                                      ELSE [status |-> 405, body |-> <<>>]
                    /\ http_pc' = "idle"
              [] r.path = "/notarize" ->
                    /\ http_resp' = NoResponse
                    /\ http_pc' = "extract_upgrade"
              [] OTHER ->
                    /\ http_resp' = [status |-> 404, body |-> <<>>]
                    /\ http_pc' = "idle"
    /\ http_rejection' = NoError
    /\ http_served' = http_served + 1
    /\ UNCHANGED <<http_sessions, exVars, subVars, frVars, nzVars, embVars, encVars, trVars>>

header_eq_any(value, expected) == TRUE

\* header_eq(&parts.headers, header::UPGRADE, "websocket")
header_eq(value, expected) == value = expected

\* ProtocolUpgrade::from_request_parts; ok is the outcome of the
\* WebSocketUpgrade extractor on a request that asks for a websocket
HttpProtocolUpgrade ==
    /\ http_pc = "extract_upgrade"
    /\ IF header_eq(http_req.upgrade, "websocket")
       THEN \E ok \in BOOLEAN :
                IF ok
                THEN /\ http_pc' = "extract_query"
                     /\ UNCHANGED http_rejection
                ELSE /\ http_rejection' = [variant |-> "BadProverRequest",
                                           msg |-> "handshake"]
                     /\ http_pc' = "reject"
       ELSE /\ http_rejection' = [variant |-> "BadProverRequest",
                                  msg |-> UpgradeHeaderNotSet]
            /\ http_pc' = "reject"
    /\ UNCHANGED <<http_req, http_resp, http_sessions, http_served,
                   exVars, subVars, frVars, nzVars, embVars, encVars, trVars>>

\* the rejection of an extractor is answered through into_response
HttpReject ==
    /\ http_pc = "reject"
    /\ http_resp' = into_response(http_rejection)
    /\ http_pc' = "idle"
    /\ UNCHANGED <<http_req, http_rejection, http_sessions, http_served,
                   exVars, subVars, frVars, nzVars, embVars, encVars, trVars>>

\* Query<NotarizationRequestQuery>
HttpQuery ==
    /\ http_pc = "extract_query"
    /\ IF http_req.context_format \in ContextFormats
       THEN /\ http_pc' = "handler"
            /\ UNCHANGED http_resp
       ELSE /\ http_resp' = [status |-> 400,
                             body |-> <<"Failed to deserialize query string">>]
            /\ http_pc' = "idle"
    /\ UNCHANGED <<http_req, http_rejection, http_sessions, http_served,
                   exVars, subVars, frVars, nzVars, embVars, encVars, trVars>>

\* notarize_handler: ws.on_upgrade schedules handle_notarize and answers
\* 101 Switching Protocols
HttpHandler ==
    /\ http_pc = "handler"
    /\ http_resp' = [status |-> 101, body |-> <<>>]
    /\ http_sessions' = http_sessions + 1
    /\ http_pc' = "idle"
    /\ UNCHANGED <<http_req, http_rejection, http_served,
                   exVars, subVars, frVars, nzVars, embVars, encVars, trVars>>

HttpNext ==
    \/ HttpRoute
    \/ HttpProtocolUpgrade
    \/ HttpReject
    \/ HttpQuery
    \/ HttpHandler

SpecHttp == HttpInit /\ [][HttpNext]_vars

\* into_response applied to every NotaryServerError
ErrorInit ==
    /\ ExIdle
    /\ SubIdle
    /\ FrIdle
    /\ NzIdle
    /\ EmbIdle
    /\ EncIdle
    /\ TrIdle
    /\ http_pc = "reject"
    /\ http_req = NoRequest
    /\ http_rejection \in NotaryServerErrors
    /\ http_resp = NoResponse
    /\ http_sessions = 0
    /\ http_served = 0

ErrorNext == HttpReject

SpecError == ErrorInit /\ [][ErrorNext]_vars

(***************************************************************************)
(* The ABI and EIP-712 encoders applied to views of a context (the tests   *)
(* of encoding/abi.rs and encoding/eip712.rs).                             *)
(***************************************************************************)
\* the body values of a request: the key absent, null, the two variants of
\* the body enum, and values of other shapes
EnBodies ==
    {Missing, JNull,
     JObj([Unknown |-> JArr(<<JNum(79), JNum(75)>>)]),
     JObj([Unknown |-> JArr(<<>>)]),
     JObj([Unknown |-> JStr("OK")]),
     JObj([Json |-> JObj([name |-> JStr("Alice"), age |-> JNum(30)])]),
     JObj([Json |-> JObj(<<>>)]),
     JObj([Json |-> JArr(<<JNum(1), JNum(2), JNum(3)>>)]),
     JObj([Json |-> JStr("text")]),
     JObj([Json |-> JNull]),
     JObj([Other |-> JNum(1)]),
     JStr("raw"),
     JArr(<<JNum(79)>>)}

EnRequest(body) ==
    LET base == [method |-> JStr("POST"), target |-> JStr("/api"),
                 headers |-> JArr(<<JArr(<<JStr("Host"), JStr("example.com")>>),
                                    JArr(<<JStr("Accept")>>)>>)]
    IN  IF body = Missing THEN JObj(base)
        ELSE JObj([k \in DOMAIN base \cup {"body"} |->
                    IF k = "body" THEN body ELSE base[k]])

EnResponse(body) ==
    JObj([status |-> JNum(200),
          headers |-> JArr(<<JNull, JArr(<<JStr("Content-Type"), JStr("text/plain")>>)>>),
          body |-> body])

\* contexts: two requests, the second already null, and one response
EnOriginals ==
    {JObj([requests |-> JArr(<<EnRequest(b), JNull>>),
           responses |-> JArr(<<EnResponse(rb)>>)]) :
        b \in EnBodies,
        rb \in {JObj([Unknown |-> JArr(<<JNum(79), JNum(75)>>)]),
                JObj([Json |-> JObj([a |-> JNum(1)])])}}

Domains == {"SimpleNotary", "AppA"}

EncodersInit ==
    /\ ExIdle
    /\ SubIdle
    /\ FrIdle
    /\ NzIdle
    /\ EmbIdle
    /\ HttpIdle
    /\ TrIdle
    /\ en_pc = "subset"
    /\ en_original \in EnOriginals
    /\ en_view \in Candidates(en_original)
    /\ en_domain \in Domains
    /\ en_accepted = FALSE
    /\ en_att = NoAttestation
    /\ en_abi = NoEncoded
    /\ en_eip712 = NoEncoded

EnSubset ==
    /\ en_pc = "subset"
    /\ en_accepted' = is_json_subset(en_view, en_original)
    /\ en_pc' = "parse"
    /\ UNCHANGED <<en_original, en_view, en_domain, en_att, en_abi, en_eip712,
                   exVars, subVars, frVars, nzVars, embVars, httpVars, trVars>>

EnParse ==
    /\ en_pc = "parse"
    /\ en_att' = parse_attestation(en_view)
    /\ en_pc' = "abi"
    /\ UNCHANGED <<en_original, en_view, en_domain, en_accepted, en_abi, en_eip712,
                   exVars, subVars, frVars, nzVars, embVars, httpVars, trVars>>

EnAbi ==
    /\ en_pc = "abi"
    /\ en_abi' = encode("abi", en_view)
    /\ en_pc' = "eip712"
    /\ UNCHANGED <<en_original, en_view, en_domain, en_accepted, en_att, en_eip712,
                   exVars, subVars, frVars, nzVars, embVars, httpVars, trVars>>

EnEip712 ==
    /\ en_pc = "eip712"
    /\ en_eip712' = eip712_encode(en_domain, en_view)
    /\ en_pc' = "done"
    /\ UNCHANGED <<en_original, en_view, en_domain, en_accepted, en_att, en_abi,
                   exVars, subVars, frVars, nzVars, embVars, httpVars, trVars>>

EncodersNext ==
    \/ EnSubset
    \/ EnParse
    \/ EnAbi
    \/ EnEip712

SpecEncoders == EncodersInit /\ [][EncodersNext]_vars

(***************************************************************************)
(* Framing harness: write_message on one end of a stream, read_message on  *)
(* the other (the round-trip tests of signing/protocol.rs).                *)
(***************************************************************************)
MaxMsgs == 2        \* messages written in one run of the harness

FrMessages(T) ==
    IF T = "NotaryMessage"
      THEN {[type |-> "Context", data |-> to_string(StructOrder, Ctx2)],
            [type |-> "Context", data |-> <<>>],
            [type |-> "Signed",
             data |-> hex_encode(encode("abi", Ctx2).data),
             format |-> "abi",
             signature |-> hex_encode(sign_digest("secp256k1", encode("abi", Ctx2).digest)),
             public_key |-> hex_encode(public_key_bytes("secp256k1")),
             algorithm |-> "secp256k1"]}
      ELSE {[type |-> "SignRequest"],
            [type |-> "SignFiltered", data |-> to_string(BTreeOrder, JNull)],
            [type |-> "SignFiltered", data |-> to_string(BTreeOrder, Ctx2)]}

FramingInit ==
    /\ ExIdle
    /\ SubIdle
    /\ NzIdle
    /\ EmbIdle
    /\ HttpIdle
    /\ EncIdle
    /\ TrIdle
    /\ fr_T \in {"NotaryMessage", "ProverMessage"}
    /\ fr_queue \in UNION {[1..n -> FrMessages(fr_T)] : n \in 1..MaxMsgs}
    /\ fr_written = 0
    /\ fr_wpc = "w_len"
    /\ fr_wire = <<>>
    /\ fr_rpc = "r_len"
    /\ fr_rlen = 0
    /\ fr_rcvd = <<>>
    /\ fr_used = <<>>

FrPayload == serialize_message(fr_queue[fr_written + 1])

\* write_message, protocol.rs 37-38
FrWriteLenPrefix ==
    /\ fr_wpc = "w_len"
    /\ fr_written < Len(fr_queue)
    /\ \E o \in write_all(to_be_bytes(as_u32(payload_len(FrPayload)))) :
        /\ o.ok
        /\ fr_wire' = fr_wire \o o.written
    /\ fr_wpc' = "w_payload"
    /\ UNCHANGED <<fr_T, fr_queue, fr_written, fr_rpc, fr_rlen, fr_rcvd, fr_used,
                   exVars, subVars, nzVars, embVars, httpVars, encVars, trVars>>

\* write_message, protocol.rs 39
FrWritePayload ==
    /\ fr_wpc = "w_payload"
    /\ \E o \in write_all(FrPayload) :
        /\ o.ok
        /\ fr_wire' = fr_wire \o o.written
    /\ fr_wpc' = "w_flush"
    /\ UNCHANGED <<fr_T, fr_queue, fr_written, fr_rpc, fr_rlen, fr_rcvd, fr_used,
                   exVars, subVars, nzVars, embVars, httpVars, encVars, trVars>>

\* write_message, protocol.rs 40-41
FrFlush ==
    /\ fr_wpc = "w_flush"
    /\ fr_written' = fr_written + 1
    /\ fr_wpc' = "w_len"
    /\ UNCHANGED <<fr_T, fr_queue, fr_wire, fr_rpc, fr_rlen, fr_rcvd, fr_used,
                   exVars, subVars, nzVars, embVars, httpVars, encVars, trVars>>

\* read_message, protocol.rs 50-56
FrReadLenPrefix ==
    /\ fr_rpc = "r_len"
    /\ Len(fr_wire) >= 4
    /\ LET len == from_be_bytes(Take(fr_wire, 4)) IN
        /\ fr_rlen' = len
        /\ fr_rpc' = IF too_large(len) THEN "failed" ELSE "r_payload"
    /\ fr_wire' = Drop(fr_wire, 4)
    /\ fr_used' = Append(fr_used, 4)
    /\ UNCHANGED <<fr_T, fr_queue, fr_written, fr_wpc, fr_rcvd, exVars, subVars, nzVars, embVars, httpVars, encVars, trVars>>

\* read_message, protocol.rs 58-60
FrReadPayload ==
    /\ fr_rpc = "r_payload"
    /\ payload_len(fr_wire) >= fr_rlen
    /\ LET d == deserialize_message(fr_T, Take(fr_wire, UnitsWithin(fr_wire, fr_rlen))) IN
        /\ fr_rcvd' = IF d.ok THEN Append(fr_rcvd, d.msg) ELSE fr_rcvd
        /\ fr_rpc' = IF d.ok THEN "r_len" ELSE "failed"
    /\ fr_wire' = Drop(fr_wire, UnitsWithin(fr_wire, fr_rlen))
    /\ fr_used' = [fr_used EXCEPT ![Len(fr_used)] = @ + fr_rlen]
    /\ UNCHANGED <<fr_T, fr_queue, fr_written, fr_wpc, fr_rlen, exVars, subVars, nzVars, embVars, httpVars, encVars, trVars>>

\* the sizes of the data string of a large message
BulkSizes == {1, MAX_MESSAGE_SIZE - 10, MAX_MESSAGE_SIZE - 9, MAX_MESSAGE_SIZE - 8,
              2 * MAX_MESSAGE_SIZE}

\* Context and Signed messages whose data string has a given size
LargeMessages ==
    {[type |-> "Context", data |-> <<Bulk(n)>>] : n \in BulkSizes}
    \cup {[type |-> "Signed", data |-> <<Bulk(n)>>, format |-> "json",
           signature |-> hex_encode(sign_digest("secp256k1", Sha256(<<Bulk(n)>>))),
           public_key |-> hex_encode(public_key_bytes("secp256k1")),
           algorithm |-> "secp256k1"] : n \in BulkSizes}

\* the notary writes messages of any size, a peer reads them
LargeInit ==
    /\ ExIdle
    /\ SubIdle
    /\ NzIdle
    /\ EmbIdle
    /\ HttpIdle
    /\ EncIdle
    /\ TrIdle
    /\ fr_T = "NotaryMessage"
    /\ fr_queue \in UNION {[1..n -> LargeMessages] : n \in 1..MaxMsgs}
    /\ fr_written = 0
    /\ fr_wpc = "w_len"
    /\ fr_wire = <<>>
    /\ fr_rpc = "r_len"
    /\ fr_rlen = 0
    /\ fr_rcvd = <<>>
    /\ fr_used = <<>>

FramingNext ==
    \/ FrWriteLenPrefix
    \/ FrWritePayload
    \/ FrFlush
    \/ FrReadLenPrefix
    \/ FrReadPayload

SpecFraming == FramingInit /\ [][FramingNext]_vars

SpecLargeFrames == LargeInit /\ [][FramingNext]_vars

(***************************************************************************)
(* The universe of JSON values the pure-function harness draws from:       *)
(* scalars, arrays and objects of scalars, and one more level of nesting   *)
(* around each of those.                                                   *)
(***************************************************************************)
UScalars ==
    {JNull, JBool(TRUE), JBool(FALSE), JStr("a")} \cup {JNum(n) : n \in 1..MaxNum}

UKeys == {"a", "b"}

UArrays(base) ==
    UNION {{JArr(s) : s \in [1..n -> base]} : n \in 0..MaxArrLen}

UObjects(base) ==
    UNION {{JObj(f) : f \in [D -> base]} : D \in SUBSET UKeys}

UFlat == UScalars \cup UArrays(UScalars) \cup UObjects(UScalars)

UNested ==
    {JArr(<<u>>) : u \in UFlat} \cup {JObj([k \in {"a"} |-> u]) : u \in UFlat}
    \cup {JArr(<<JNull, u>>) : u \in UArrays(UScalars)}

Universe == UFlat \cup UNested

(***************************************************************************)
(* Harness: draw a pair of values, apply is_json_subset.                   *)
(***************************************************************************)
BoolStr(b) == IF b THEN "true" ELSE "false"

SubsetInit ==
    /\ ExIdle
    /\ FrIdle
    /\ NzIdle
    /\ EmbIdle
    /\ HttpIdle
    /\ EncIdle
    /\ TrIdle
    /\ sub_pc = "input"
    /\ sub_filtered \in Universe
    /\ sub_original \in Universe
    /\ sub_result = "none"

CallIsJsonSubset ==
    /\ sub_pc = "input"
    /\ sub_result' = BoolStr(is_json_subset(sub_filtered, sub_original))
    /\ sub_pc' = "done"
    /\ UNCHANGED <<sub_filtered, sub_original>>
    /\ UNCHANGED <<exVars, frVars, nzVars, embVars, httpVars, encVars, trVars>>

SubsetNext == CallIsJsonSubset

SpecSubset == SubsetInit /\ [][SubsetNext]_vars

(***************************************************************************)
(* Harness: a view of a view of a context, is_json_subset on each pair.    *)
(***************************************************************************)
TransitiveInit ==
    /\ ExIdle
    /\ SubIdle
    /\ FrIdle
    /\ NzIdle
    /\ EmbIdle
    /\ HttpIdle
    /\ EncIdle
    /\ tr_pc = "lower"
    /\ tr_c \in Contexts
    /\ tr_b \in Candidates(tr_c)
    /\ tr_a \in Candidates(tr_b)
    /\ tr_ab = "none"
    /\ tr_bc = "none"
    /\ tr_ac = "none"

TrLower ==
    /\ tr_pc = "lower"
    /\ tr_ab' = BoolStr(is_json_subset(tr_a, tr_b))
    /\ tr_pc' = "upper"
    /\ UNCHANGED <<tr_a, tr_b, tr_c, tr_bc, tr_ac,
                   exVars, subVars, frVars, nzVars, embVars, httpVars, encVars>>

TrUpper ==
    /\ tr_pc = "upper"
    /\ tr_bc' = BoolStr(is_json_subset(tr_b, tr_c))
    /\ tr_pc' = "outer"
    /\ UNCHANGED <<tr_a, tr_b, tr_c, tr_ab, tr_ac,
                   exVars, subVars, frVars, nzVars, embVars, httpVars, encVars>>

TrOuter ==
    /\ tr_pc = "outer"
    /\ tr_ac' = BoolStr(is_json_subset(tr_a, tr_c))
    /\ tr_pc' = "done"
    /\ UNCHANGED <<tr_a, tr_b, tr_c, tr_ab, tr_bc,
                   exVars, subVars, frVars, nzVars, embVars, httpVars, encVars>>

TransitiveNext ==
    \/ TrLower
    \/ TrUpper
    \/ TrOuter

SpecTransitive == TransitiveInit /\ [][TransitiveNext]_vars

(***************************************************************************)
(* The rules of the redaction predicate, stated over paths instead of by   *)
(* recursion: a path is a sequence of array indices and object keys.       *)
(***************************************************************************)
\* null is accepted anywhere; a scalar must be equal; an array must have the
\* same length; a key (or position) of the filtered value must exist in the
\* original; every other combination is rejected
RedactionRules(filtered, original) ==
    \A p \in Paths(filtered) :
        /\ HasPath(original, p)
        /\ LET n == At(filtered, p)
               m == At(original, p)
           IN  \/ n.t = "null"
               \/ /\ n.t = m.t
                  /\ IsScalar(n) => n.v = m.v
                  /\ n.t = "arr" => Len(n.v) = Len(m.v)

C7_Reflexive ==
    (sub_pc = "done" /\ sub_filtered = sub_original) => sub_result = "true"

\* C7 witness: the predicate was applied to a nested value against itself.
C7_Witness ==
    /\ sub_pc = "done"
    /\ sub_filtered = sub_original
    /\ sub_original = JObj([k \in {"a"} |-> JArr(<<JNum(1), JStr("a")>>)])

(***************************************************************************)
(* What is on the wire, decoded with the framing rule.                     *)
(***************************************************************************)
HasPrefix(st) == Len(st) >= 4 /\ \A i \in 1..4 : st[i].k = "byte"

\* the payloads of the complete frames at the head of a stream
RECURSIVE WireFrames(_)
WireFrames(st) ==
    IF ~HasPrefix(st) THEN <<>>
    ELSE LET n == from_be_bytes(Take(st, 4)) IN
         IF Len(st) < 4 + n THEN <<>>
         ELSE <<SubSeq(st, 5, 4 + n)>> \o WireFrames(Drop(st, 4 + n))

\* what follows the complete frames
RECURSIVE WireRest(_)
WireRest(st) ==
    IF ~HasPrefix(st) THEN st
    ELSE LET n == from_be_bytes(Take(st, 4)) IN
         IF Len(st) < 4 + n THEN st ELSE WireRest(Drop(st, 4 + n))

NotaryWire == [i \in 1..Len(WireFrames(out)) |->
                    deserialize_message("NotaryMessage", WireFrames(out)[i])]

ContextOnWire == NotaryWire[1].msg
SignedOnWire == NotaryWire[2].msg

\* the units of the stream that follow the Context frame
SignedPart ==
    IF Len(WireFrames(out)) >= 1 THEN Drop(out, 4 + Len(WireFrames(out)[1])) ELSE <<>>

IsCompleteFrame(st) == Len(WireFrames(st)) = 1 /\ WireRest(st) = <<>>

IsPrefix(a, b) == Len(a) <= Len(b) /\ a = Take(b, Len(a))

Terminated == pc \in {"done", "failed"}

Rank(e) ==
    CASE e = "verifier_done" -> 0
      [] e = "write_context" -> 1
      [] e = "write_legacy" -> 1
      [] e = "read" -> 2
      [] e = "write_signed" -> 3

Count(e) == Cardinality({i \in 1..Len(events) : events[i] = e})

\* C1: in a session the verifier completes before anything of Context is
\* written, Context is written before the notary reads anything from the
\* prover, Signed is written only after a prover message has been read, at
\* most once, and nothing is written or read after it.
C1_MessageOrder ==
    /\ \A i, j \in 1..Len(events) : i < j => Rank(events[i]) <= Rank(events[j])
    /\ Len(events) > 0 => events[1] = "verifier_done"
    /\ Count("verifier_done") <= 1
    /\ Count("write_signed") > 0 =>
            /\ prover_msg # NoMessage
            /\ Count("read") = 2
            /\ Count("write_context") = 2
    /\ out # <<>> => Count("verifier_done") = 1
    /\ Len(NotaryWire) <= 2
    /\ Len(NotaryWire) >= 1 => NotaryWire[1].ok /\ ContextOnWire.type = "Context"
    /\ Len(NotaryWire) = 2 =>
            /\ NotaryWire[2].ok
            /\ SignedOnWire.type = "Signed"
            /\ WireRest(out) = <<>>

\* C1 witness: a session that ran to the end, Signed on the wire after
\* Context.
C1_Witness ==
    /\ pc = "done"
    /\ events = <<"verifier_done", "write_context", "write_context", "read",
                  "read", "write_signed", "write_signed">>
    /\ Len(NotaryWire) = 2
    /\ SignedOnWire.type = "Signed"

\* the prover's message is SignFiltered and its data parses to a value that
\* is not a redaction of the context sent in Context
BadFiltered ==
    /\ prover_msg.type = "SignFiltered"
    /\ from_str(prover_msg.data).ok
    /\ ~RedactionRules(from_str(prover_msg.data).val, from_str(ContextOnWire.data).val)

\* C2: when the prover's SignFiltered data is not a subset of the context,
\* the exchange fails with the subset error, the encoder and the signer are
\* never called and nothing of a Signed message is ever written.
C2_NonSubsetRejected ==
    BadFiltered =>
        /\ pc \in {"select", "failed"}
        /\ pc = "failed" =>
                err = "filtered context is not a valid subset of the original context"
        /\ encode_args = <<>>
        /\ sign_args = <<>>
        /\ Count("write_signed") = 0
        /\ Len(NotaryWire) = 1
        /\ WireRest(out) = <<>>

\* C2 witness: the tampered request method of the spec's scenario 3 was
\* rejected.
C2_Witness ==
    /\ pc = "failed"
    /\ BadFiltered
    /\ context = Ctx1
    /\ from_str(prover_msg.data).val =
            ReplaceAt(Ctx1, <<KeyStep("requests"), IxStep(1), KeyStep("method")>>,
                      JStr("tampered"))

\* C3: when the prover sent SignFiltered, the only value ever encoded is the
\* parse of the prover's data, it is a redaction of the parse of the JSON
\* sent in Context, and with the JSON encoder the data of Signed parses to it.
C3_FilteredValueSigned ==
    (prover_msg.type = "SignFiltered" /\ encode_args # <<>>) =>
        LET filtered == from_str(prover_msg.data).val
            original == from_str(ContextOnWire.data).val
        IN  /\ encode_args = <<filtered>>
            /\ RedactionRules(filtered, original)
            /\ sign_args # <<>> =>
                    \E r \in encode_results(cfg, filtered) :
                        r.ok /\ sign_args = <<r.enc.digest>>
            /\ (pc = "done" /\ cfg.encoder = "json") =>
                    from_str(SignedOnWire.data) = [ok |-> TRUE, val |-> filtered]

\* the redacted view of the spec's scenario 2
Scenario2View ==
    ReplaceAt(RemoveAt(Ctx1, <<KeyStep("responses"), IxStep(1), KeyStep("body")>>),
              <<KeyStep("responses"), IxStep(1), KeyStep("headers"), IxStep(1)>>, JNull)

\* C3 witness: scenario 2 (a header nulled, the body key removed) was signed
\* with the JSON encoder.
C3_Witness ==
    /\ pc = "done"
    /\ cfg.encoder = "json"
    /\ prover_msg.type = "SignFiltered"
    /\ encode_args = <<Scenario2View>>
    /\ Scenario2View # Ctx1

\* C4 as stated: when a run has ended, the stream holds either a complete
\* Signed frame or no byte of one.
C4_NoPartialSignedFrame ==
    Terminated => (SignedPart = <<>> \/ IsCompleteFrame(SignedPart))

\* C4 as amended: a Signed frame is begun only once the message is fully
\* built; when the exchange returns Ok exactly the complete frame is on the
\* stream; when it returns an error the stream holds no byte of the frame,
\* or the whole frame (the flush failed), or, only when a write of the
\* frame's length prefix or payload failed, a proper prefix of the frame.
C4_SignedFrameAllOrWriteError ==
    /\ SignedPart # <<>> =>
            /\ wr.kind = "Signed"
            /\ IsPrefix(SignedPart, Frame(wr.payload))
            /\ sign_args # <<>>
    /\ pc = "done" =>
            /\ SignedPart = Frame(wr.payload)
            /\ IsCompleteFrame(SignedPart)
            /\ SignedOnWire.type = "Signed"
    /\ (pc = "failed" /\ SignedPart # <<>> /\ ~IsCompleteFrame(SignedPart)) =>
            err \in {"writing length prefix", "writing payload"}
    /\ (pc = "failed" /\ IsCompleteFrame(SignedPart)) => err = "flushing writer"

\* C4 witness: the transport failed while the payload of Signed was being
\* written, leaving the length prefix and part of the payload on the stream.
C4_Witness ==
    /\ pc = "failed"
    /\ err = "writing payload"
    /\ wr.kind = "Signed"
    /\ Len(SignedPart) > 4
    /\ ~IsCompleteFrame(SignedPart)

\* C5: when the prover sent SignRequest, the only value ever encoded is the
\* parse of the JSON sent in Context, and with the JSON encoder the data of
\* Signed parses to the same value as the data of Context.
C5_SignRequestSignsContext ==
    (prover_msg.type = "SignRequest" /\ encode_args # <<>>) =>
        /\ from_str(ContextOnWire.data).ok
        /\ encode_args = <<from_str(ContextOnWire.data).val>>
        /\ encode_args = <<context>>
        /\ (pc = "done" /\ cfg.encoder = "json") =>
                from_str(SignedOnWire.data) = from_str(ContextOnWire.data)

\* C5 witness: a full-context signature with the JSON encoder, whose text
\* differs from the text of Context (member order) and parses to the same
\* value.
C5_Witness ==
    /\ pc = "done"
    /\ cfg.encoder = "json"
    /\ prover_msg.type = "SignRequest"
    /\ SignedOnWire.data # ContextOnWire.data
    /\ from_str(SignedOnWire.data).val = context

ArrLen(x, key) == Len(Get(x, key).v)

\* the signed view's requests and responses arrays, where it has them, are
\* as long as the original's
ViewKeepsLengths(view, original) ==
    \A key \in {"requests", "responses"} :
        Get(view, key).t = "arr" => ArrLen(view, key) = ArrLen(original, key)

AbiConfigured == cfg.encoder \in {"abi", "eip712"}

\* C8 as stated: in a successful exchange the signed view's requests and
\* responses arrays are as long as the original's, and with the ABI and
\* EIP-712 encoders the encoded Attestation's requests.len and
\* responses.len equal the original's.
C8_LengthsPreserved ==
    pc = "done" =>
        LET original == from_str(ContextOnWire.data).val IN
        /\ ViewKeepsLengths(encode_args[1], original)
        /\ AbiConfigured =>
            /\ abi_requests_len(hex_decode(SignedOnWire.data)) = ArrLen(original, "requests")
            /\ abi_responses_len(hex_decode(SignedOnWire.data)) = ArrLen(original, "responses")

\* C8 as amended: in a successful exchange the signed view's requests and
\* responses arrays, where the view has them, are as long as the
\* original's; with the ABI and EIP-712 encoders the encoded Attestation's
\* requests.len (responses.len) equals the original's when the view has the
\* array, and is 0 when the view omits the key or has a non-array there.
C8_LengthsPreservedWherePresent ==
    pc = "done" =>
        LET original == from_str(ContextOnWire.data).val
            view == encode_args[1]
            data == hex_decode(SignedOnWire.data)
        IN  /\ ViewKeepsLengths(view, original)
            /\ AbiConfigured =>
                /\ abi_requests_len(data) =
                        IF Get(view, "requests").t = "arr"
                          THEN ArrLen(original, "requests") ELSE 0
                /\ abi_responses_len(data) =
                        IF Get(view, "responses").t = "arr"
                          THEN ArrLen(original, "responses") ELSE 0

\* C8 witness: an ABI-encoded signature over a view that omits the requests
\* key of a context with two requests.
C8_Witness ==
    /\ pc = "done"
    /\ cfg.encoder = "abi"
    /\ context = Ctx2
    /\ encode_args = <<RemoveAt(Ctx2, <<KeyStep("requests")>>)>>
    /\ abi_requests_len(hex_decode(SignedOnWire.data)) = 0

\* C9: read_message fails on the size check exactly when the length prefix
\* exceeds 10 MiB; it has then read the four bytes of the prefix and nothing
\* of the payload, the exchange has failed and nothing of Signed is written.
C9_SizeLimit ==
    Len(consumed) >= 1 /\ consumed[1] = 4 =>
        /\ (err = "message too large") = (rd_len > 10 * 1024 * 1024)
        /\ rd_len > 10 * 1024 * 1024 =>
                /\ pc = "failed"
                /\ consumed = <<4>>
                /\ prover_msg = NoMessage
                /\ Count("write_signed") = 0
                /\ SignedPart = <<>>
        /\ (rd_len <= 10 * 1024 * 1024 /\ pc = "failed" /\ consumed = <<4>>) =>
                err \in {"reading payload"}

\* C9 witness: a prefix of 10 MiB + 1 was refused with the payload unread.
C9_Witness ==
    /\ pc = "failed"
    /\ err = "message too large"
    /\ rd_len = 10 * 1024 * 1024 + 1
    /\ Len(inp) > 0

\* C9 second witness: a prefix of exactly 10 MiB passed the size check.
C9_WitnessAtLimit ==
    /\ pc = "r_payload"
    /\ rd_len = 10 * 1024 * 1024

\* C10: the messages read_message returns are the messages write_message
\* wrote, in order, each read consuming exactly the four bytes of the prefix
\* and the payload of one frame; the reader never fails.
C10_FramingRoundTrip ==
    /\ fr_rpc # "failed"
    /\ Len(fr_rcvd) <= Len(fr_queue)
    /\ \A i \in 1..Len(fr_rcvd) :
            /\ fr_rcvd[i] = fr_queue[i]
            /\ fr_used[i] = 4 + Len(serialize_message(fr_queue[i]))
    /\ (fr_rpc = "r_len" /\ fr_wpc = "w_len" /\ Len(fr_rcvd) = fr_written) =>
            fr_wire = <<>>

\* C10 witness: two different messages were written and read back.
C10_Witness ==
    /\ Len(fr_rcvd) = 2
    /\ fr_rcvd = fr_queue
    /\ fr_rcvd[1] # fr_rcvd[2]
    /\ fr_wire = <<>>

\* C11: a step of the exchange that fails ends it: the exchange is in its
\* failed state exactly when an error has been returned, and from then on
\* nothing more is written to or read from the stream, and nothing more is
\* encoded or signed.
C11_ErrorTerminates ==
    [][/\ (err' # "") <=> (pc' = "failed")
       /\ (err # "") => UNCHANGED <<pc, err, out, inp, consumed, events,
                                   encode_args, sign_args>>]_vars

\* C11 witness: the encoder failed after the prover's message was read;
\* nothing of a Signed frame is on the stream.
C11_Witness ==
    /\ pc = "failed"
    /\ err = "encoding context"
    /\ events = <<"verifier_done", "write_context", "write_context", "read", "read">>
    /\ sign_args = <<>>
    /\ SignedPart = <<>>

\* C12: a server started with a signer whose algorithm is rsa-pkcs1v15-sha256
\* and an encoder other than json panics at startup and serves nothing; a
\* server that got past startup with a signer never has that pair, and only
\* that pair is refused.
C12_RsaRequiresJson ==
    LET rsa_non_json == cfg.algorithm = "rsa-pkcs1v15-sha256" /\ cfg.encoder # "json"
    IN  /\ (pc # "startup" /\ cfg.signer /\ rsa_non_json) =>
                (pc = "startup_panic" /\ events = <<>> /\ out = <<>>)
        /\ pc = "startup_panic" => (cfg.signer /\ rsa_non_json)

\* C12 witness: the RSA signer with the EIP-712 encoder was refused.
C12_Witness ==
    /\ pc = "startup_panic"
    /\ cfg.signer
    /\ cfg.algorithm = "rsa-pkcs1v15-sha256"
    /\ cfg.encoder = "eip712"

\* C13: the caller of notarize performs I/O on the stream only once the
\* driver task has completed: whenever the caller holds the stream again the
\* driver is done, and no I/O of the driver follows one of the caller.
C13_DriverDoneBeforeCallerIO ==
    /\ (nz_pc \in {"returned", "exchange"}) => (nz_drv = "done" /\ nz_io = "caller")
    /\ (nz_drv \in {"running", "failed"}) =>
            \A i \in 1..Len(nz_log) : nz_log[i] # "caller"
    /\ \A i, j \in 1..Len(nz_log) :
            (i < j /\ nz_log[i] = "caller") => nz_log[j] # "driver"

\* C13 witness: the driver performed I/O, completed, and the caller then
\* used the stream.
C13_Witness ==
    /\ nz_pc = "exchange"
    /\ nz_drv = "done"
    /\ nz_log = <<"driver", "driver", "caller", "caller">>

\* C14: whichever encoder is configured, the first frame on the stream is a
\* Context message whose data is the JSON serialization of the session's
\* HttpContext and parses back to it; the frame under construction and the
\* frame on the wire do not depend on the encoder.
C14_ContextAlwaysJson ==
    /\ (wr.kind = "Context") =>
            wr.payload = serialize_message(
                [type |-> "Context", data |-> to_string(StructOrder, context)])
    /\ (Len(NotaryWire) >= 1) =>
            /\ NotaryWire[1].ok
            /\ ContextOnWire = [type |-> "Context",
                                data |-> to_string(StructOrder, context)]
            /\ from_str(ContextOnWire.data) = [ok |-> TRUE, val |-> context]

\* C14 witness: a session with the ABI encoder ran to the end; Context
\* carries JSON, Signed carries the ABI format.
C14_Witness ==
    /\ pc = "done"
    /\ cfg.encoder = "abi"
    /\ context = Ctx1
    /\ ContextOnWire.data = to_string(StructOrder, Ctx1)
    /\ SignedOnWire.format = "abi"
    /\ SignedOnWire.data # ContextOnWire.data

\* a string made of lowercase hex digit pairs, as hex::encode writes them
IsHex(str) == \A i \in 1..Len(str) : str[i].k = "hex"

LegacyEnded == ~cfg.signer /\ pc \in {"closed", "panicked"} /\ events # <<>>

\* the text legacy mode writes: serde_json::to_value(context).to_string()
LegacyText == to_string(BTreeOrder, context)

\* a session without a signer exchanges no framed message: nothing is read,
\* encoded or signed, and no frame is written
LegacyNoExchange ==
    ~cfg.signer =>
        /\ Count("read") = 0 /\ consumed = <<>>
        /\ Count("write_context") = 0 /\ Count("write_signed") = 0
        /\ WireFrames(out) = <<>>
        /\ prover_msg = NoMessage
        /\ encode_args = <<>> /\ sign_args = <<>>

\* C16 as stated: for every context_format, a session without a signer
\* whose write did not fail has written the JSON text of the context, and
\* closed, without any framed message.
C16_LegacyWritesJson ==
    /\ LegacyNoExchange
    /\ (LegacyEnded /\ Count("write_legacy") = 0) =>
            (pc = "closed" /\ out = LegacyText)
    /\ (LegacyEnded /\ pc = "closed") => out = LegacyText

\* C16 as amended: a session without a signer exchanges no framed message;
\* with context_format = Json it writes the JSON text of the context (which
\* parses to the context) and closes, or panics on a failed write with a
\* proper prefix of the text written; with context_format = Binary it
\* panics having written nothing.
C16_LegacyJsonOnly ==
    /\ LegacyNoExchange
    /\ (LegacyEnded /\ cfg.context_format = "Json" /\ pc = "closed") =>
            /\ out = LegacyText
            /\ from_str(out) = [ok |-> TRUE, val |-> context]
            /\ events = <<"verifier_done", "write_legacy">>
    /\ (LegacyEnded /\ cfg.context_format = "Json" /\ pc = "panicked") =>
            /\ IsPrefix(out, LegacyText) /\ out # LegacyText
            /\ events = <<"verifier_done", "write_legacy">>
    /\ (LegacyEnded /\ cfg.context_format = "Binary") =>
            (pc = "panicked" /\ out = <<>> /\ events = <<"verifier_done">>)
    /\ LegacyEnded => cfg.context_format \in ContextFormats

\* C16 witness: a session without a signer wrote the JSON text of the
\* context of scenario 1 and closed.
C16_Witness ==
    /\ ~cfg.signer
    /\ pc = "closed"
    /\ cfg.context_format = "Json"
    /\ context = Ctx1
    /\ out = to_string(BTreeOrder, Ctx1)

(***************************************************************************)
(* The embedding encoder shared by concurrent sessions.                    *)
(***************************************************************************)
\* the name is one of the encoder's startup allow-list
InAllowList(name) == \E i \in DOMAIN emb_allowed : emb_allowed[i] = name

NotAllowedError == "model is not in the server's allowed list"

\* the model selected by the session's current (or last refused) call is allowed
SelectedAllowed(s) == InAllowList(select_model(emb_allowed, emb_call[s].options))

\* every model loaded, cached or used for a returned result is allowed
OnlyAllowedModels ==
    /\ \A e \in emb_models : InAllowList(e.name)
    /\ \A i \in DOMAIN emb_loads : InAllowList(emb_loads[i].name)
    /\ \A d \in emb_done : InAllowList(select_model(emb_allowed, d.call.options))

\* the session's last encode call was refused for its model
Rejected(s) == emb_pc[s] = "idle" /\ emb_local[s].err = NotAllowedError

\* C17: an encode call whose selected model (the requested one, or the
\* default) is not in the allow-list returns the allow-list error at once:
\* the session never reaches the cache, no model outside the allow-list is
\* ever loaded, cached or used for a result, and the step that refuses the
\* call leaves the cache, the loads and the lock as they were.
C17_RejectsUnlistedModel ==
    [][/\ \A s \in Sessions :
            /\ (emb_pc'[s] # "idle") =>
                    SelectedAllowed(s)'
            /\ Rejected(s)' =>
                    ~SelectedAllowed(s)'
            /\ (Rejected(s)' /\ emb_started' # emb_started /\ emb_pc' = emb_pc) =>
                    UNCHANGED <<emb_models, emb_loads, emb_lock, emb_done>>
       /\ OnlyAllowedModels'
       /\ (emb_started' # emb_started /\ emb_pc' = emb_pc) =>
            \E s \in Sessions : Rejected(s)']_vars

\* C17 witness: with all-MiniLM-L6-v2 loaded and alone in the allow-list, a
\* call asking for bge-small-en-v1.5 was refused.
C17_Witness ==
    /\ emb_allowed = <<"all-MiniLM-L6-v2">>
    /\ emb_models = {[name |-> "all-MiniLM-L6-v2", instance |-> 1]}
    /\ \E s \in Sessions :
            /\ Rejected(s)
            /\ emb_call[s].options.embedding_model = "bge-small-en-v1.5"

\* C18: every model name is loaded and inserted at most once; the cache
\* holds exactly the entries ever inserted (none replaced, none removed),
\* one per name; and every inference runs on the cached entry of its model.
C18_LoadedOnce ==
    /\ \A i, j \in DOMAIN emb_loads :
            emb_loads[i].name = emb_loads[j].name => i = j
    /\ emb_models = {emb_loads[i] : i \in DOMAIN emb_loads}
    /\ \A e1, e2 \in emb_models : e1.name = e2.name => e1 = e2
    /\ \A s \in Sessions :
            emb_pc[s] = "finish" =>
                [name |-> emb_local[s].model_name,
                 instance |-> emb_local[s].instance] \in emb_models

\* C18 witness: one session loaded a model and returned, and another is
\* finishing a call served by that same cached instance.
C18_Witness ==
    /\ Len(emb_loads) = 1
    /\ \E d \in emb_done :
            /\ ~d.cached
            /\ select_model(emb_allowed, d.call.options) = emb_loads[1].name
    /\ \E s \in Sessions :
            /\ emb_pc[s] = "finish"
            /\ emb_local[s].cached
            /\ emb_local[s].model_name = emb_loads[1].name
            /\ emb_local[s].instance = emb_loads[1].instance

\* C19 as stated: the cache lock is held only while a model is inserted; a
\* session running inference on a cached model does not hold it.
C19_LockOnlyDuringInsert ==
    \A s \in Sessions : emb_pc[s] = "infer" => emb_lock # s

\* C20: two encode calls that returned Ok for the same options and the same
\* context returned the same data and digest, whether the model was loaded
\* by the call or found in the cache, and whatever was encoded in between.
C20_Deterministic ==
    \A d1, d2 \in emb_done : d1.call = d2.call => d1.enc = d2.enc

\* C20 witness: the same call returned once after loading the model and once
\* from the cache.
C20_Witness ==
    \E d1, d2 \in emb_done :
        /\ d1.call = d2.call
        /\ ~d1.cached /\ d2.cached
        /\ d1.enc = d2.enc
        /\ d1.call.options.quantization = "Int8"
        /\ d1.call.context = Ctx2

(***************************************************************************)
(* The HTTP front end.                                                     *)
(***************************************************************************)
\* C21: the response to a NotaryServerError has status 400 for
\* BadProverRequest, 401 for UnauthorizedProverRequest and 500 for each of
\* Unexpected, Connection, Notarization and CredentialSigningKeyError.
C21_StatusOfError ==
    (http_pc = "idle" /\ http_rejection # NoError) =>
        /\ http_rejection.variant = "BadProverRequest" => http_resp.status = 400
        /\ http_rejection.variant = "UnauthorizedProverRequest" =>
                http_resp.status = 401
        /\ http_rejection.variant \in {"Unexpected", "Connection", "Notarization",
                                       "CredentialSigningKeyError"} =>
                http_resp.status = 500
        /\ http_resp.status \in {400, 401, 500}

\* C21 witness: an UnauthorizedProverRequest was answered 401.
C21_Witness ==
    /\ http_pc = "idle"
    /\ http_rejection = [variant |-> "UnauthorizedProverRequest", msg |-> "unauth"]
    /\ http_resp.status = 401

\* the request last received was for /notarize without Upgrade: websocket
NotWebsocket == http_req.path = "/notarize" /\ http_req.upgrade # "websocket"

Parsed == en_pc \in {"abi", "eip712", "done"}

\* x[key] when x is an object with that key, else the marker "absent"
Member(x, key) ==
    IF x.t = "obj" /\ key \in DOMAIN x.v THEN x.v[key] ELSE [t |-> "absent"]

ZeroRequest == [present |-> FALSE, method |-> "", target |-> "", headers |-> <<>>,
                body |-> <<>>, bodyEncoding |-> 0]
ZeroResponse == [present |-> FALSE, status |-> 0, headers |-> <<>>,
                 body |-> <<>>, bodyEncoding |-> 0]

IsStr(x) == x.t = "str"

\* the headers hs of an encoded element follow the headers array of elem
HeadersKeepPositions(elem, hs) ==
    LET h == Member(elem, "headers") IN
    h.t = "arr" =>
        /\ Len(hs) = Len(h.v)
        /\ \A j \in 1..Len(h.v) :
            /\ h.v[j].t = "null" => hs[j] = [name |-> "", value |-> ""]
            /\ (h.v[j].t = "arr" /\ Len(h.v[j].v) = 2 /\ IsStr(h.v[j].v[1])
                    /\ IsStr(h.v[j].v[2])) =>
                    hs[j] = [name |-> h.v[j].v[1].v, value |-> h.v[j].v[2].v]

\* the encoded array elems follows the array under key of the view
ElementsKeepPositions(key, elems, zero) ==
    LET a == Member(en_view, key) IN
    a.t = "arr" =>
        /\ Len(elems) = Len(a.v)
        /\ \A i \in 1..Len(a.v) :
            IF a.v[i].t = "null"
              THEN elems[i] = zero
              ELSE elems[i].present /\ HeadersKeepPositions(a.v[i], elems[i].headers)

\* C23: element i of the view's requests (responses) array is element i of
\* Attestation.requests (responses): a null element is present=false with
\* every other field zero-valued, a non-null element is present=true, header
\* j of its headers array is Header j, and a null header is the empty pair
\* at its position.
C23_PositionsPreserved ==
    Parsed =>
        /\ ElementsKeepPositions("requests", en_att.requests, ZeroRequest)
        /\ ElementsKeepPositions("responses", en_att.responses, ZeroResponse)

\* C23 witness: the prover nulled the first request and the second was null
\* already; the response keeps its null header before Content-Type.
C23_Witness ==
    /\ en_pc = "done"
    /\ Member(en_view, "requests").t = "arr"
    /\ Member(en_view, "requests").v = <<[t |-> "null"], [t |-> "null"]>>
    /\ en_att.requests = <<ZeroRequest, ZeroRequest>>
    /\ Len(en_att.responses) = 1
    /\ en_att.responses[1].present
    /\ en_att.responses[1].headers =
            <<[name |-> "", value |-> ""],
              [name |-> "Content-Type", value |-> "text/plain"]>>

IsByteValue(x) == x.t = "num" /\ x.v \in 0..255

\* body is abi.encode(keys, values) for the members f of a JSON object: two
\* arrays of the same length, values[i] the JSON text of the value under keys[i]
IsKeyValueEncoding(body, f) ==
    LET n == Cardinality(DOMAIN f) IN
    /\ Len(body) = 2 * n + 2
    /\ body[1] = AWord(n)
    /\ body[n + 2] = AWord(n)
    /\ {body[1 + i].v : i \in 1..n} = DOMAIN f
    /\ \A i \in 1..n :
        /\ body[1 + i] = AStr(body[1 + i].v)
        /\ body[n + 2 + i] = AText(to_string(BTreeOrder, f[body[1 + i].v]))

\* the encoded element r carries the body b as the discriminator prescribes
BodyFollowsDiscriminator(b, r) ==
    LET json == Member(b, "Json")
        unknown == Member(b, "Unknown")
    IN  CASE json.t = "obj" ->
                r.bodyEncoding = 2 /\ IsKeyValueEncoding(r.body, json.v)
          [] json.t \notin {"obj", "absent"} ->
                r.bodyEncoding = 1 /\ r.body = to_string(BTreeOrder, json)
          [] json.t = "absent" /\ unknown.t = "arr" ->
                (\A i \in 1..Len(unknown.v) : IsByteValue(unknown.v[i])) =>
                    /\ r.bodyEncoding = 1
                    /\ r.body = [i \in 1..Len(unknown.v) |-> Byte(unknown.v[i].v)]
          [] OTHER -> r.bodyEncoding = 0 /\ r.body = <<>>

BodiesFollowDiscriminator(key, elems) ==
    LET a == Member(en_view, key) IN
    a.t = "arr" =>
        \A i \in 1..Len(a.v) :
            (a.v[i].t # "null" /\ i <= Len(elems)) =>
                BodyFollowsDiscriminator(Member(a.v[i], "body"), elems[i])

\* C24: for every non-null request and response, a body that is absent, null
\* or of no recognized shape gives bodyEncoding 0 and an empty body; Unknown
\* with an array of bytes gives 1 and those bytes; Json with a non-object
\* gives 1 and its JSON text; Json with an object gives 2 and the encoding
\* of (keys, values), of equal length, values[i] the JSON text under keys[i].
C24_BodyDiscriminator ==
    Parsed =>
        /\ BodiesFollowDiscriminator("requests", en_att.requests)
        /\ BodiesFollowDiscriminator("responses", en_att.responses)

\* C24 witness: a Json object body encoded as key-value pairs next to an
\* Unknown body encoded as raw bytes.
C24_Witness ==
    /\ en_pc = "done"
    /\ Len(en_att.requests) = 2 /\ Len(en_att.responses) = 1
    /\ Member(Member(Member(en_view, "requests").v[1], "body"), "Json") =
            [t |-> "obj", v |-> [name |-> [t |-> "str", v |-> "Alice"],
                                 age |-> [t |-> "num", v |-> 30]]]
    /\ en_att.requests[1].bodyEncoding = 2
    /\ Len(en_att.requests[1].body) = 6
    /\ en_att.responses[1].bodyEncoding = 1
    /\ Len(en_att.responses[1].body) = 2

\* C25: on the same input the EIP-712 encoder's data equals the ABI
\* encoder's data, for every domain; the ABI digest is the keccak256 of the
\* data and the EIP-712 digest the signing hash of the attestation under the
\* encoder's domain, and the two digests differ.
C25_SameDataOtherDigest ==
    en_pc = "done" =>
        /\ en_eip712.data = en_abi.data
        /\ en_abi.digest = Keccak256(en_abi.data)
        /\ en_eip712.digest = Eip712Hash(en_domain, en_att)
        /\ en_eip712.digest.k # en_abi.digest.k

\* C25 witness: both encoders ran on a redacted view under the domain AppA.
C25_Witness ==
    /\ en_pc = "done"
    /\ en_domain = "AppA"
    /\ en_view # en_original
    /\ en_accepted
    /\ Len(en_att.requests) = 2
    /\ en_eip712.data = en_abi.data
    /\ Len(en_abi.data) > 4

\* the encoded element r carries one byte per element of an Unknown body
UnknownKeepsLength(b, r) ==
    LET unknown == Member(b, "Unknown") IN
    (Member(b, "Json").t = "absent" /\ unknown.t = "arr") =>
        /\ r.bodyEncoding = 1
        /\ Len(r.body) = Len(unknown.v)
        /\ \A i \in 1..Len(unknown.v) :
                (IsByteValue(unknown.v[i]) /\ i <= Len(r.body)) =>
                    r.body[i] = Byte(unknown.v[i].v)

UnknownBodiesKeepLength(key, elems) ==
    LET a == Member(en_view, key) IN
    a.t = "arr" =>
        \A i \in 1..Len(a.v) :
            (a.v[i].t # "null" /\ i <= Len(elems)) =>
                UnknownKeepsLength(Member(a.v[i], "body"), elems[i])

\* C28 as stated: for every view accepted by the subset check, a body
\* {"Unknown": [e1, ..., en]} is encoded as a RAW body of n bytes, byte i
\* being element i, also when elements were replaced by null.
C28_UnknownBodyKeepsLength ==
    (Parsed /\ en_accepted) =>
        /\ UnknownBodiesKeepLength("requests", en_att.requests)
        /\ UnknownBodiesKeepLength("responses", en_att.responses)

(***************************************************************************)
(* The signature of the Signed message.                                    *)
(***************************************************************************)
\* C26: the exchange calls encode at most once and sign_digest at most once;
\* in a Signed message on the wire, data carries the bytes returned by that
\* one encode call, signature is the signer's signature over the digest the
\* same call returned, which is the only digest ever signed, and public_key
\* is the public key of that signer.
C26_SignatureBindsShippedData ==
    /\ Len(encode_args) <= 1
    /\ Len(sign_args) <= 1
    /\ (Len(NotaryWire) = 2) =>
        LET m == SignedOnWire IN
        /\ Len(encode_args) = 1
        /\ Len(sign_args) = 1
        /\ m.algorithm = cfg.algorithm
        /\ hex_decode(m.public_key) = <<[k |-> "pk", v |-> cfg.algorithm]>>
        /\ \E r \in encode_results(cfg, encode_args[1]) :
            /\ r.ok
            /\ sign_args[1] = r.enc.digest
            /\ m.data = IF m.format = "json" THEN r.enc.data
                                             ELSE hex_encode(r.enc.data)
            /\ hex_decode(m.signature) =
                    <<[k |-> "sig",
                       v |-> [alg |-> cfg.algorithm, digest |-> r.enc.digest]]>>

\* C26 witness: a redacted view was encoded with the ABI encoder, signed and
\* shipped.
C26_Witness ==
    /\ pc = "done"
    /\ Len(NotaryWire) = 2
    /\ cfg.encoder = "abi"
    /\ prover_msg.type = "SignFiltered"
    /\ Len(encode_args) = 1
    /\ encode_args[1] # from_str(canonical_json).val
    /\ sign_args = <<Keccak256(hex_decode(SignedOnWire.data))>>

(***************************************************************************)
(* Redactions of redactions.                                               *)
(***************************************************************************)
\* C27: is_json_subset is transitive: when is_json_subset(a, b) and
\* is_json_subset(b, c) are true, is_json_subset(a, c) is true.
C27_Transitive ==
    (tr_pc = "done" /\ tr_ab = "true" /\ tr_bc = "true") => tr_ac = "true"

\* C27 witness: b redacts the context, a redacts b further, and all three
\* calls returned true.
C27_Witness ==
    /\ tr_pc = "done"
    /\ tr_ab = "true" /\ tr_bc = "true" /\ tr_ac = "true"
    /\ tr_c = Ctx1
    /\ tr_a # tr_b /\ tr_b # tr_c
    /\ tr_a.t = "obj" /\ tr_b.t = "obj"
    /\ DOMAIN tr_a.v # {}

(***************************************************************************)
(* The size of the frames the notary writes.                               *)
(***************************************************************************)
\* C29 as stated: every frame the notary writes has a length prefix equal to
\* the byte length of its payload and at most 10 MiB, and a peer applying
\* the size limit of read_message accepts it.
C29_FramesWithinLimit ==
    /\ fr_rpc # "failed"
    /\ fr_rlen <= 10 * 1024 * 1024
    /\ fr_rpc = "r_payload" =>
            fr_rlen = payload_len(serialize_message(fr_queue[Len(fr_rcvd) + 1]))

(***************************************************************************)
(* Termination of the signing exchange.                                    *)
(***************************************************************************)
\* the unread input starts with a complete frame for the read_message call
\* of the exchange
FrameDelivered ==
    \/ /\ pc = "r_payload"
       /\ Len(inp) >= rd_len
    \/ /\ pc \in {"exchange", "w_len", "w_payload", "w_flush", "r_len"}
       /\ wr.kind # "Signed"
       /\ Len(inp) >= 4
       /\ Len(inp) - 4 >= from_be_bytes(Take(inp, 4))

\* run_signing_exchange is running and the prover has delivered a complete
\* frame or closed the stream
TransportProgressed == SessionActive /\ (FrameDelivered \/ in_eof)

\* C30 as stated: once the prover has delivered a complete frame or the
\* transport has closed, run_signing_exchange eventually returns.
C30_ReturnsOnceDelivered == TransportProgressed ~> Terminated

\* C30: if the transport completes or fails every write and flush the notary
\* attempts, then once the prover has delivered a complete frame or the
\* transport has closed, run_signing_exchange eventually returns.
C30_ReturnsIfWritesComplete == WritesComplete => (TransportProgressed ~> Terminated)

\* the exchange has returned after reading a complete frame the prover
\* delivered
C30_Witness ==
    /\ pc = "done"
    /\ Len(consumed) = 2
    /\ consumed[2] = rd_len
    /\ prover_state = "sent"

====
